---- MODULE Spec2Model ----
(***************************************************************************)
(* code-healer: the incident pipeline of CodeHealerAgent                   *)
(* (src/src/agent/core_agent.py) and the RemediationCoordinator            *)
(* (src/src/agent/remediation_coordinator.py).                             *)
(*                                                                         *)
(* Numbers.  Confidences, success rates and thresholds are percentages     *)
(* (0.92 is 92).  Candidate scores are in units of 1e-4, risk scores in    *)
(* units of 1e-3, costs in units of 1e-2.  Float rounding is not modelled. *)
(*                                                                         *)
(* Scheduling.  One call is in flight at a time; the calls of one agent    *)
(* share only dictionaries keyed by the incident id, and asyncio switches  *)
(* tasks only at an await.  A call is split at its stages so that the      *)
(* order of the stages is visible.                                         *)
(***************************************************************************)
EXTENDS Integers, Sequences, FiniteSets, TLC

VARIABLES
    config,               \* the dict the agent and its coordinator were built with
    calls,                \* number of calls started; the incident id of call n is n
    pc,                   \* position of the call in flight ("idle": none)
    caller,               \* "agent": process_failure_event, "direct": coordinate_remediation
    incident,             \* <<>> or <<IncidentEvent>>
    analysis,             \* <<>> or <<FailureAnalysis>>
    candidates,           \* resolution_candidates of the call in flight
    decision,             \* <<>> or <<remediation_decision>> of the agent
    active_incidents,     \* CodeHealerAgent.active_incidents (its keys)
    incident_history,     \* CodeHealerAgent.incident_history (its keys)
    registered,           \* the incident ids process_failure_event has registered
    stage_log,            \* the stages process_failure_event began and completed, in order
    returned,             \* <<>> or <<what the call returned to its caller>>
    selected_resolution,  \* <<>> or <<ResolutionCandidate>>
    remediation_plan,     \* <<>> or <<RemediationPlan>>
    executed,             \* the actions _execute_action was called with, in order
    action_failed,        \* some _execute_action returned False
    verification_failed,  \* _verify_remediation_success returned False
    rollback_calls,       \* calls of _rollback_remediation in this call
    rollback_log,         \* the rollback steps run, in order
    remediation_result,   \* <<>> (None) or <<RemediationResult>>
    trace,                \* the coordination states the call went through
    raised_in,            \* the step whose exception reached coordinate_remediation
    active_remediations,  \* RemediationCoordinator.active_remediations (its keys)
    remediation_history,  \* RemediationCoordinator.remediation_history (its keys)
    success_rate_updates, \* the calls of KnowledgeRetriever.update_solution_success_rate
    outcome_records,      \* FeedbackSystem.outcome_records (its values)
    kr_pc,                \* position of the retrieve_solutions call in flight
    source_results,       \* what each knowledge source gave: "raised" or its results
    appended,             \* the candidates appended, before deduplication
    retrieved,            \* <<>> or <<the list retrieve_solutions returned>>
    retrieval_raised,     \* retrieve_solutions raised to its caller
    retrieval_analysis,   \* <<>> or <<the analysis retrieve_solutions was called with>>
    record_calls,         \* the calls of FeedbackSystem.record_outcome, in order
    knowledge_deprecation,\* FeedbackSystem.knowledge_deprecation
    metrics_history,      \* FeedbackSystem.metrics_history (the type of each timestamp)
    confidence_adjustments, \* FeedbackSystem.confidence_adjustments
    learned_patterns,     \* FeedbackSystem.learned_patterns
    imported,             \* <<>> or <<the fresh FeedbackSystem after the last import of an export>>
    tasks,                \* the record_outcome calls run as concurrent tasks: position, arguments
    combined,             \* <<>> or <<the last call of _combine_analyses: arguments, result>>
    selections            \* <<>> or <<what _select_resolution selected last>>

vars == <<config, calls, pc, caller, incident, analysis, candidates, decision,
          active_incidents, incident_history, registered, stage_log, returned,
          selected_resolution, remediation_plan, executed, action_failed,
          verification_failed, rollback_calls, rollback_log, remediation_result, trace, raised_in,
          active_remediations, remediation_history, success_rate_updates,
          outcome_records, kr_pc, source_results, appended, retrieved,
          retrieval_raised, retrieval_analysis, record_calls, knowledge_deprecation, metrics_history,
          confidence_adjustments, learned_patterns, imported, tasks, combined,
          selections>>

\* Bounds of the model.
MaxCalls == 2
MaxCands == 2

----------------------------------------------------------------------------
\* Enumerations

Fixability == {"auto", "retry", "investigate"}

FailureCategory == {"config", "auth", "resource", "dependency", "drift"}

ResolutionSource == {"slack", "vector_db", "llm_analysis"}

Environments == {"production", "staging", "development", "unknown"}

RemediationAction ==
    {"github_rerun", "github_update_config", "github_update_secret", "argocd_sync",
     "argocd_update_manifest", "kubernetes_scale", "kubernetes_restart",
     "wait_and_retry", "escalate_to_human"}

ApprovalStatus == {"not_required", "pending", "approved", "rejected"}

ThresholdKeys == {"production", "staging", "development", "default"}

RiskFactorKeys == {"production_environment", "cross_service_impact", "config_changes",
                   "resource_scaling", "credential_updates"}

----------------------------------------------------------------------------
\* Small helpers

Opt(s) == Len(s) > 0

Val(s) == s[1]

Contains(seq, x) == \E i \in 1..Len(seq) : seq[i] = x

IsPrefix(s, t) == Len(s) <= Len(t) /\ \A i \in 1..Len(s) : s[i] = t[i]

Max0(x) == IF x > 0 THEN x ELSE 0

Min(a, b) == IF a < b THEN a ELSE b

Max(a, b) == IF a > b THEN a ELSE b

RECURSIVE Flatten(_)
Flatten(seqs) == IF seqs = <<>> THEN <<>> ELSE Head(seqs) \o Flatten(Tail(seqs))

----------------------------------------------------------------------------
\* Configurations

DefaultConfidenceThresholds ==
    [k \in ThresholdKeys |->
        CASE k = "production" -> 92
          [] k = "staging" -> 85
          [] k = "development" -> 75
          [] OTHER -> 85]

DefaultRiskFactors ==
    [k \in RiskFactorKeys |->
        CASE k = "production_environment" -> 300
          [] k = "cross_service_impact" -> 250
          [] k = "config_changes" -> 150
          [] k = "resource_scaling" -> 200
          [] OTHER -> 100]

DefaultApprovalRules ==
    [production_always |-> TRUE, high_risk_always |-> TRUE, low_confidence_threshold |-> 90]

\* The dict get_agent() builds, with GITHUB_TOKEN set.
LambdaConfig ==
    [name |-> "lambda",
     agent_thresholds |-> DefaultConfidenceThresholds,
     agent_thresholds_numeric |-> TRUE,
     confidence_thresholds |-> DefaultConfidenceThresholds,
     risk_factors |-> DefaultRiskFactors,
     approval_rules |-> DefaultApprovalRules,
     github_client |-> TRUE]

\* CodeHealerAgent(config) with none of the optional keys: every default of
\* RemediationCoordinator.__init__ applies, the agent finds no thresholds and
\* no GitHub token.
EmptyConfig ==
    [name |-> "empty",
     agent_thresholds |-> [k \in {} |-> 0],
     agent_thresholds_numeric |-> TRUE,
     confidence_thresholds |-> DefaultConfidenceThresholds,
     risk_factors |-> DefaultRiskFactors,
     approval_rules |-> DefaultApprovalRules,
     github_client |-> FALSE]

\* remediation.confidence_thresholds given per environment, without "default".
NoDefaultKeyConfig ==
    [LambdaConfig EXCEPT !.name = "no_default_key",
        !.confidence_thresholds =
            [k \in ThresholdKeys \ {"default"} |-> DefaultConfidenceThresholds[k]]]

\* Only a "default" threshold, for the agent and for the coordinator.
DefaultOnlyConfig ==
    [LambdaConfig EXCEPT !.name = "default_only",
        !.agent_thresholds = [k \in {"default"} |-> 85],
        !.confidence_thresholds = [k \in {"default"} |-> 85]]

\* remediation.risk_factors given as an empty dict, and the agent's thresholds
\* holding a value that is no number (None, a string).
BrokenConfig ==
    [LambdaConfig EXCEPT !.name = "broken",
        !.agent_thresholds_numeric = FALSE,
        !.risk_factors = [k \in {} |-> 0]]

\* get_agent() with APPROVAL_LOW_CONF_THRESHOLD=0.99: every plan for a candidate
\* below 0.99 needs approval.
StrictApprovalConfig ==
    [LambdaConfig EXCEPT !.name = "strict_approval",
        !.approval_rules = [DefaultApprovalRules EXCEPT !.low_confidence_threshold = 99]]

\* remediation.risk_factors with config_changes 0.7, so that every plan which
\* changes a configuration file is of high risk, and APPROVAL_HIGH_RISK=false.
HighRiskConfig ==
    [LambdaConfig EXCEPT !.name = "high_risk",
        !.risk_factors = [DefaultRiskFactors EXCEPT !["config_changes"] = 700],
        !.approval_rules = [DefaultApprovalRules EXCEPT !.high_risk_always = FALSE]]

Configs ==
    {LambdaConfig, EmptyConfig, StrictApprovalConfig, NoDefaultKeyConfig,
     DefaultOnlyConfig, BrokenConfig, HighRiskConfig}

----------------------------------------------------------------------------
\* Inputs

\* ResolutionCandidate.  days_since_used = -1 stands for last_used = None;
\* cached_solution stands for metadata["cached_solution"] together with
\* metadata["solution_signature"], which only an object built outside the
\* ResolutionCandidate dataclass can carry.
Candidate(id, src, conf, rate, env_match, days, cached) ==
    [resolution_id |-> id, source |-> src, confidence |-> conf, success_rate |-> rate,
     environment_match |-> env_match, days_since_used |-> days, cached_solution |-> cached]

\* What retrieve_solutions can return: _slack_to_candidate (0.90 to 0.98),
\* _vector_to_candidate (up to 0.95), _llm_to_candidate (at most 0.65).
RetrievedCandidates ==
    {Candidate("slack-95", "slack", 95, 95, TRUE, 0, FALSE),
     Candidate("slack-91", "slack", 91, 95, TRUE, 90, FALSE),
     Candidate("slack-90", "slack", 90, 95, TRUE, 45, FALSE),
     Candidate("vector-80", "vector_db", 80, 70, FALSE, 90, FALSE),
     Candidate("llm-65", "llm_analysis", 65, 60, TRUE, -1, FALSE)}

\* What a caller of coordinate_remediation can pass.
CallerCandidates ==
    {Candidate("slack-95", "slack", 95, 95, TRUE, 0, FALSE),
     Candidate("slack-95b", "slack", 95, 95, TRUE, 0, FALSE),
     Candidate("slack-90", "slack", 90, 95, TRUE, 45, FALSE),
     Candidate("vector-80", "vector_db", 80, 70, FALSE, 90, FALSE),
     Candidate("llm-95", "llm_analysis", 95, 100, TRUE, -1, TRUE)}

\* The lists of at most MaxCands distinct candidates of a set.
ListsOf(S) ==
    {l \in UNION {[1..n -> S] : n \in 0..MaxCands} :
        \A i, j \in 1..Len(l) : i # j => l[i] # l[j]}

\* candidates.sort(key=lambda x: x.confidence, reverse=True)
SortedByConfidence(l) == \A i \in 1..(Len(l) - 1) : l[i].confidence >= l[i+1].confidence

\* The (incident, analysis) pairs of the calls made on the coordinator
\* directly: incident.source and the analysis.  affected_components is the
\* length of the list; fix_info: the analysis carries fix_actions and
\* affected_files.
DirectCase(src, cat, sub, fix, components, fix_info) ==
    [source |-> src,
     analysis |-> [category |-> cat, subcategory |-> sub, fixability |-> fix,
                   confidence |-> 90, affected_components |-> components,
                   fix_info |-> fix_info]]

DirectCases ==
    {DirectCase("github_actions", "config", "syntax_error", "auto", 0, TRUE),
     DirectCase("github_actions", "config", "secret_missing", "auto", 2, FALSE),
     DirectCase("github_actions", "config", "reference_error", "auto", 0, FALSE),
     DirectCase("github_actions", "dependency", "network_failure", "auto", 0, FALSE),
     DirectCase("argocd", "config", "syntax_error", "auto", 0, FALSE),
     DirectCase("argocd", "drift", "state_inconsistency", "auto", 0, FALSE),
     DirectCase("kubernetes", "resource", "memory_limit", "auto", 2, FALSE),
     DirectCase("kubernetes", "resource", "compute_limit", "auto", 0, FALSE),
     DirectCase("argocd", "drift", "state_inconsistency", "retry", 0, FALSE),
     DirectCase("github_actions", "dependency", "network_failure", "investigate", 0, FALSE)}

\* word in subcategory.lower()
SubcategoryContains(sub, word) ==
    \/ word = "syntax" /\ sub = "syntax_error"
    \/ word = "secret" /\ sub = "secret_missing"
    \/ word = "memory" /\ sub = "memory_limit"

\* EventSource values of the incidents process_webhook_event builds.
EventSources == {"github_actions", "argocd", "kubernetes", "prometheus"}

----------------------------------------------------------------------------
\* FailureAnalyzer

\* _create_fallback_analysis: the class of the first keyword group found in
\* incident.error_log decides the analysis.
FallbackKeywordClasses == {"syntax", "auth", "resource", "network", "none"}

_create_fallback_analysis(kw) ==
    CASE kw = "syntax" ->
            [category |-> "config", subcategory |-> "syntax_error", fixability |-> "auto",
             confidence |-> 60, affected_components |-> 0, fix_info |-> FALSE]
      [] kw = "auth" ->
            [category |-> "auth", subcategory |-> "permission_error", fixability |-> "auto",
             confidence |-> 55, affected_components |-> 0, fix_info |-> FALSE]
      [] kw = "resource" ->
            [category |-> "resource", subcategory |-> "resource_limit", fixability |-> "auto",
             confidence |-> 50, affected_components |-> 0, fix_info |-> FALSE]
      [] kw = "network" ->
            [category |-> "dependency", subcategory |-> "network_failure",
             fixability |-> "retry",
             confidence |-> 45, affected_components |-> 0, fix_info |-> FALSE]
      [] OTHER ->
            [category |-> "dependency", subcategory |-> "unknown_failure",
             fixability |-> "investigate",
             confidence |-> 30, affected_components |-> 0, fix_info |-> FALSE]

\* incident.error_log: the error texts of the incidents analysed.
ErrorLogs ==
    {"OOMKilled", "yaml: invalid syntax", "forbidden", "connection timeout",
     "disk full", "segmentation fault"}

\* any(word in error_lower for word in [...]), for the four keyword groups of
\* _create_fallback_analysis in their order.
FallbackKeyword(error_log) ==
    CASE error_log = "yaml: invalid syntax" -> "syntax"
      [] error_log = "forbidden" -> "auth"
      [] error_log = "OOMKilled" -> "resource"
      [] error_log = "connection timeout" -> "network"
      [] OTHER -> "none"

\* _load_error_patterns: <<category, subcategory, fixability, confidence_boost>>,
\* in the order of the list.
ErrorPatterns ==
    << <<"config", "syntax_error", "auto", 20>>,
       <<"config", "reference_error", "auto", 18>>,
       <<"config", "image_reference_error", "auto", 17>>,
       <<"config", "validation_error", "auto", 16>>,
       <<"auth", "permission_error", "auto", 15>>,
       <<"auth", "expired_credentials", "auto", 17>>,
       <<"auth", "rbac_error", "auto", 14>>,
       <<"resource", "memory_limit", "auto", 19>>,
       <<"resource", "compute_limit", "auto", 16>>,
       <<"resource", "storage_limit", "auto", 15>>,
       <<"resource", "scheduling_failure", "auto", 13>>,
       <<"dependency", "network_timeout", "retry", 12>>,
       <<"dependency", "network_failure", "retry", 11>>,
       <<"dependency", "service_unavailable", "retry", 10>>,
       <<"dependency", "dns_failure", "retry", 9>>,
       <<"drift", "state_inconsistency", "investigate", 8>>,
       <<"drift", "version_drift", "investigate", 7>> >>

\* len(re.findall(pattern.pattern, error_text)) for the pattern of a
\* subcategory: each text of ErrorLogs is matched by at most one pattern, once.
MatchCount(subcategory, error_log) ==
    IF \/ subcategory = "memory_limit" /\ error_log = "OOMKilled"
       \/ subcategory = "syntax_error" /\ error_log = "yaml: invalid syntax"
       \/ subcategory = "permission_error" /\ error_log = "forbidden"
       \/ subcategory = "network_timeout" /\ error_log = "connection timeout"
       \/ subcategory = "storage_limit" /\ error_log = "disk full"
    THEN 1 ELSE 0

\* The confidence _pattern_match_analysis gives to a pattern that matched.
PatternConfidence(inc, i) ==
    LET pattern == ErrorPatterns[i]
        match_count == MatchCount(pattern[2], inc.error_log)
        repeated == IF match_count > 1
                    THEN (IF match_count * 2 < 10 THEN match_count * 2 ELSE 10)
                    ELSE 0
        github == IF inc.source = "github_actions" /\ SubcategoryContains(pattern[2], "workflow")
                  THEN 5 ELSE 0
        kubernetes == IF inc.source = "kubernetes" /\ SubcategoryContains(pattern[2], "pod")
                      THEN 5 ELSE 0
    IN  60 + pattern[4] + repeated + github + kubernetes

\* _pattern_match_analysis: the first pattern of the highest confidence among
\* those that match, or None.
_pattern_match_analysis(inc) ==
    LET matched == {i \in 1..Len(ErrorPatterns) :
                        MatchCount(ErrorPatterns[i][2], inc.error_log) > 0}
    IN  IF matched = {} THEN <<>>
        ELSE LET best == CHOOSE i \in matched :
                            \A j \in matched :
                                \/ PatternConfidence(inc, j) < PatternConfidence(inc, i)
                                \/ PatternConfidence(inc, j) = PatternConfidence(inc, i) /\ i <= j
             IN  <<[category |-> ErrorPatterns[best][1],
                    subcategory |-> ErrorPatterns[best][2],
                    fixability |-> ErrorPatterns[best][3],
                    confidence |-> PatternConfidence(inc, best)]>>

\* _llm_analysis with no api_key configured: None.
_llm_analysis(inc) == <<>>

\* The analysis built from a categorization and a confidence.
CombinedAnalysis(categorization, confidence) ==
    [category |-> categorization.category,
     subcategory |-> categorization.subcategory,
     fixability |-> categorization.fixability,
     confidence |-> confidence,
     affected_components |-> 0, fix_info |-> FALSE]

\* A fusion in which the pattern's categorization wins a disagreement
_combine_analyses_PatternWins(inc, pattern_match, llm_analysis) ==
    IF Opt(pattern_match) /\ Opt(llm_analysis)
    THEN LET p == Val(pattern_match)
             m == Val(llm_analysis)
         IN  IF p.category = m.category
             THEN CombinedAnalysis(m, Min((4 * p.confidence + 6 * m.confidence + 100) \div 10, 100))
             ELSE CombinedAnalysis(p, (8 * m.confidence) \div 10)
    ELSE IF Opt(llm_analysis)
    THEN CombinedAnalysis(Val(llm_analysis), Val(llm_analysis).confidence)
    ELSE IF Opt(pattern_match)
    THEN CombinedAnalysis(Val(pattern_match), Val(pattern_match).confidence)
    ELSE _create_fallback_analysis(FallbackKeyword(inc.error_log))

\* _combine_analyses.  Confidences are percentages: 0.4 * p + 0.6 * m + 0.1
\* is (4p + 6m + 100) / 10 and m * 0.8 is 8m / 10, whole numbers for the
\* confidences that are multiples of 5.
_combine_analyses(inc, pattern_match, llm_analysis) ==
    IF Opt(pattern_match) /\ Opt(llm_analysis)
    THEN LET p == Val(pattern_match)
             m == Val(llm_analysis)
         IN  IF p.category = m.category
             THEN CombinedAnalysis(m, Min((4 * p.confidence + 6 * m.confidence + 100) \div 10, 100))
             ELSE CombinedAnalysis(m, (8 * m.confidence) \div 10)
    ELSE IF Opt(llm_analysis)
    THEN CombinedAnalysis(Val(llm_analysis), Val(llm_analysis).confidence)
    ELSE IF Opt(pattern_match)
    THEN CombinedAnalysis(Val(pattern_match), Val(pattern_match).confidence)
    ELSE _create_fallback_analysis(FallbackKeyword(inc.error_log))

\* The incidents whose analyses are combined: the pattern confidences of
\* their error texts are 0.80, 0.75, 0.75, and no match.
FusionIncidents ==
    {[incident_id |-> 0, source |-> "github_actions", environment |-> "development",
      error_log |-> e] :
        e \in {"yaml: invalid syntax", "forbidden", "disk full", "segmentation fault"}}

\* What _llm_analysis can return: None, or the dict _parse_llm_response
\* built, its confidence clamped to [0, 1].
LlmAnalyses ==
    {<<>>} \cup
    {<<[category |-> c,
        subcategory |-> CASE c = "config" -> "syntax_error"
                          [] c = "auth" -> "expired_credentials"
                          [] c = "resource" -> "memory_limit"
                          [] c = "dependency" -> "network_failure"
                          [] OTHER -> "version_drift",
        fixability |-> f, confidence |-> m]>> :
        c \in {"config", "auth", "resource", "dependency", "drift"},
        f \in Fixability, m \in {0, 50, 85, 100}}

\* analyze_failure (the second definition of the class, the one in force)
\* calls self._llm_analysis(incident, detailed_logs, pattern_analysis), and
\* _llm_analysis(self, incident, detailed_logs=None) takes one argument less:
\* the call raises TypeError every time.
LlmAnalysisCallRaises == TRUE

\* analyze_failure: the TypeError is caught by "except Exception", which
\* returns the fallback analysis.
analyze_failure(inc) ==
    IF LlmAnalysisCallRaises
    THEN _create_fallback_analysis(FallbackKeyword(inc.error_log))
    ELSE _combine_analyses(inc, _pattern_match_analysis(inc), _llm_analysis(inc))

----------------------------------------------------------------------------
\* RemediationCoordinator: selection

\* A threshold lookup that ignores the environment
_get_min_confidence_threshold_DefaultOnly(cfg, environment) ==
    cfg.confidence_thresholds["default"]

\* self.confidence_thresholds.get(environment, self.confidence_thresholds["default"]):
\* the default argument is evaluated first, KeyError when the key is missing.
MinConfidenceThresholdRaises(cfg) == "default" \notin DOMAIN cfg.confidence_thresholds

_get_min_confidence_threshold(cfg, environment) ==
    IF environment \in DOMAIN cfg.confidence_thresholds
    THEN cfg.confidence_thresholds[environment]
    ELSE cfg.confidence_thresholds["default"]

SourceWeight(src) ==
    CASE src = "slack" -> 100
      [] src = "vector_db" -> 90
      [] src = "llm_analysis" -> 70
      [] OTHER -> 50

\* A score that is the weighted confidence alone
_calculate_candidate_score_ConfidenceOnly(c) == c.confidence * 60

_calculate_candidate_score(c) ==
    c.confidence * 60
    + SourceWeight(c.source) * 20
    + c.success_rate * 10
    + (IF c.environment_match THEN 500 ELSE 0)
    + (IF c.days_since_used >= 0 THEN (Max0(90 - c.days_since_used) * 500) \div 90 ELSE 0)

\* viable_candidates filtered on the confidence threshold alone
ViableCandidates_ConfidenceOnly(cfg, inc, an, cands) ==
    SelectSeq(cands, LAMBDA c :
        c.confidence >= _get_min_confidence_threshold(cfg, inc.environment))

\* viable_candidates of _select_resolution
ViableCandidates(cfg, inc, an, cands) ==
    SelectSeq(cands, LAMBDA c :
        /\ c.confidence >= _get_min_confidence_threshold(cfg, inc.environment)
        /\ an.fixability = "auto")

\* scored_candidates.sort(key=score, reverse=True)[0]: the sort is stable, so
\* the first candidate of maximal score in list order.
_select_resolution(cfg, inc, an, cands) ==
    LET viable == ViableCandidates(cfg, inc, an, cands)
    IN  IF viable = <<>> THEN <<>>
        ELSE LET best == CHOOSE i \in 1..Len(viable) :
                    /\ \A j \in 1..Len(viable) :
                          _calculate_candidate_score(viable[j])
                              <= _calculate_candidate_score(viable[i])
                    /\ \A j \in 1..(i-1) :
                          _calculate_candidate_score(viable[j])
                              < _calculate_candidate_score(viable[i])
             IN  <<viable[best]>>

----------------------------------------------------------------------------
\* RemediationCoordinator: planning

\* Rules that end every list with the escalation
_determine_remediation_actions_EscalationAppended(inc, an) ==
    LET rule ==
            IF inc.source = "github_actions" THEN
                IF an.category = "config" THEN
                    IF SubcategoryContains(an.subcategory, "syntax")
                    THEN <<"github_update_config">>
                    ELSE IF SubcategoryContains(an.subcategory, "secret")
                    THEN <<"github_update_secret">>
                    ELSE <<>>
                ELSE IF an.category = "dependency"
                THEN <<"wait_and_retry", "github_rerun">>
                ELSE <<"github_rerun">>
            ELSE IF inc.source = "argocd" THEN
                (IF an.category = "config" THEN <<"argocd_update_manifest">> ELSE <<>>)
                    \o <<"argocd_sync">>
            ELSE IF inc.source = "kubernetes" THEN
                IF an.category = "resource" THEN
                    IF SubcategoryContains(an.subcategory, "memory")
                    THEN <<"kubernetes_scale">>
                    ELSE <<"kubernetes_restart">>
                ELSE <<>>
            ELSE <<>>
    IN  rule \o <<"escalate_to_human">>

_determine_remediation_actions(inc, an) ==
    LET rule ==
            IF inc.source = "github_actions" THEN
                IF an.category = "config" THEN
                    IF SubcategoryContains(an.subcategory, "syntax")
                    THEN <<"github_update_config">>
                    ELSE IF SubcategoryContains(an.subcategory, "secret")
                    THEN <<"github_update_secret">>
                    ELSE <<>>
                ELSE IF an.category = "dependency"
                THEN <<"wait_and_retry", "github_rerun">>
                ELSE <<"github_rerun">>
            ELSE IF inc.source = "argocd" THEN
                (IF an.category = "config" THEN <<"argocd_update_manifest">> ELSE <<>>)
                    \o <<"argocd_sync">>
            ELSE IF inc.source = "kubernetes" THEN
                IF an.category = "resource" THEN
                    IF SubcategoryContains(an.subcategory, "memory")
                    THEN <<"kubernetes_scale">>
                    ELSE <<"kubernetes_restart">>
                ELSE <<>>
            ELSE <<>>
    IN  IF rule = <<>> THEN <<"escalate_to_human">> ELSE rule

\* The keys of self.risk_factors that _assess_risk_level subscripts.
RiskFactorsRead(inc, an, actions) ==
    (IF inc.environment = "production" THEN {"production_environment"} ELSE {})
    \cup (IF Contains(actions, "kubernetes_scale") THEN {"resource_scaling"} ELSE {})
    \cup (IF Contains(actions, "github_update_config") THEN {"config_changes"} ELSE {})
    \cup (IF Contains(actions, "github_update_secret") THEN {"credential_updates"} ELSE {})
    \cup (IF an.affected_components > 1 THEN {"cross_service_impact"} ELSE {})

\* KeyError in _assess_risk_level
AssessRiskRaises(cfg, inc, an, actions) ==
    ~(RiskFactorsRead(inc, an, actions) \subseteq DOMAIN cfg.risk_factors)

RECURSIVE SumOver(_, _)
SumOver(f, keys) ==
    IF keys = {} THEN 0
    ELSE LET k == CHOOSE x \in keys : TRUE IN f[k] + SumOver(f, keys \ {k})

RiskScore(cfg, inc, an, res, actions) ==
    SumOver(cfg.risk_factors, RiskFactorsRead(inc, an, actions))
    + (100 - res.confidence) * 2

\* A risk level that is high from the medium threshold on
_assess_risk_level_HighFromMedium(cfg, inc, an, res, actions) ==
    LET risk_score == RiskScore(cfg, inc, an, res, actions)
    IN  IF risk_score >= 400 THEN "high" ELSE "low"

_assess_risk_level(cfg, inc, an, res, actions) ==
    LET risk_score == RiskScore(cfg, inc, an, res, actions)
    IN  IF risk_score >= 700 THEN "high"
        ELSE IF risk_score >= 400 THEN "medium"
        ELSE "low"

\* Approval rules without the low-confidence rule
_requires_approval_NoConfidenceRule(cfg, inc, res, risk_level) ==
    \/ inc.environment = "production" /\ cfg.approval_rules.production_always
    \/ risk_level = "high" /\ cfg.approval_rules.high_risk_always

\* The last test of the function, any(action in scaling_actions for action in []),
\* iterates over an empty list and is never true.
_requires_approval(cfg, inc, res, risk_level) ==
    \/ inc.environment = "production" /\ cfg.approval_rules.production_always
    \/ risk_level = "high" /\ cfg.approval_rules.high_risk_always
    \/ res.confidence < cfg.approval_rules.low_confidence_threshold

RollbackStepsOf(action) ==
    CASE action = "github_update_config" ->
            <<"Revert configuration file changes via Git",
              "Re-trigger workflow with reverted config">>
      [] action = "github_update_secret" ->
            <<"Restore previous secret value", "Re-trigger workflow">>
      [] action = "kubernetes_scale" ->
            <<"Scale back to original resource limits", "Monitor pod stability">>
      [] action = "argocd_update_manifest" ->
            <<"Revert manifest changes in Git", "Trigger ArgoCD sync">>
      [] action = "github_rerun" ->
            <<"Cancel workflow run if still in progress">>
      [] OTHER -> <<>>

_create_rollback_plan(actions) ==
    Flatten([i \in 1..Len(actions) |-> RollbackStepsOf(actions[i])])

_create_remediation_plan(cfg, inc, an, res) ==
    LET actions == _determine_remediation_actions(inc, an)
        risk_level == _assess_risk_level(cfg, inc, an, res, actions)
        approval_required == _requires_approval(cfg, inc, res, risk_level)
    IN  [resolution_id |-> res.resolution_id,
         actions |-> actions,
         approval_required |-> approval_required,
         approval_status |-> IF approval_required THEN "pending" ELSE "not_required",
         risk_level |-> risk_level,
         rollback_plan |-> _create_rollback_plan(actions)]

----------------------------------------------------------------------------
\* RemediationCoordinator: the cost-benefit gate and the approval workflow

\* An expected cost with a failure that costs 5000
ExpectedCostAuto_CostlyFailure(res) == res.confidence * 1 + (100 - res.confidence) * 5000

\* cost_if_successful = 1.0, cost_if_failed = 50.0, cost_manual = 500.0
ExpectedCostAuto(res) == res.confidence * 1 + (100 - res.confidence) * 50

\* self.confidence_thresholds["production"], read for production incidents only
ShouldProceedRaises(cfg, inc) ==
    inc.environment = "production" /\ "production" \notin DOMAIN cfg.confidence_thresholds

\* A gate that compares the expected cost only
_should_proceed_with_remediation_CostOnly(cfg, inc, res, plan) ==
    ExpectedCostAuto(res) < 50000

_should_proceed_with_remediation(cfg, inc, res, plan) ==
    /\ ExpectedCostAuto(res) < 50000
    /\ ~(plan.risk_level = "high" /\ res.confidence < 95)
    /\ ~(inc.environment = "production"
         /\ res.confidence < cfg.confidence_thresholds["production"])

\* An approval that looks at the confidence only
ApprovalGranted_AnyEnvironment(inc, res) == res.confidence > 90

\* The value _handle_approval_workflow returns.
ApprovalGranted(inc, res) ==
    inc.environment \in {"development", "staging"} /\ res.confidence > 90

\* An approval workflow that leaves plan.approval_status as it found it
_handle_approval_workflow_StatusUntouched(inc, res, plan) == plan

\* An approval workflow that marks every plan it does not approve as rejected
_handle_approval_workflow_MarksRejected(inc, res, plan) ==
    [plan EXCEPT !.approval_status =
        IF ApprovalGranted(inc, res) THEN "approved" ELSE "rejected"]

\* plan.approval_status after _handle_approval_workflow
_handle_approval_workflow(inc, res, plan) ==
    [plan EXCEPT !.approval_status =
        IF ApprovalGranted(inc, res) THEN "approved" ELSE "pending"]

----------------------------------------------------------------------------
\* RemediationCoordinator: execution

\* An _execute_action that returns True for an action of no branch
ActionOutcomes_EscalationSucceeds(cfg, an, action) ==
    CASE action = "github_rerun" -> IF cfg.github_client THEN {TRUE, FALSE} ELSE {FALSE}
      [] action = "github_update_config" ->
            IF cfg.github_client /\ an.fix_info THEN {TRUE, FALSE} ELSE {FALSE}
      [] OTHER -> {TRUE}

\* What _execute_action can return.  The placeholders return True; an action
\* of no branch (escalate_to_human) returns False; the GitHub actions need the
\* client and depend on the event and on the remote API (an exception in one
\* is caught and returns False).
ActionOutcomes(cfg, an, action) ==
    CASE action = "github_rerun" -> IF cfg.github_client THEN {TRUE, FALSE} ELSE {FALSE}
      [] action = "github_update_config" ->
            IF cfg.github_client /\ an.fix_info THEN {TRUE, FALSE} ELSE {FALSE}
      [] action = "escalate_to_human" -> {FALSE}
      [] OTHER -> {TRUE}

\* _verify_remediation_success: a placeholder that always returns True
_verify_remediation_success == TRUE

\* hasattr(self, 'knowledge_retriever'): nothing assigns the attribute, neither
\* RemediationCoordinator.__init__ nor CodeHealerAgent._init_agent_components.
HasKnowledgeRetriever == FALSE

\* The calls of update_solution_success_rate that
\* _update_solution_success_tracking(resolution, success) makes.
_update_solution_success_tracking(res, success) ==
    IF /\ res.source = "llm_analysis"
       /\ res.cached_solution
       /\ HasKnowledgeRetriever
    THEN <<[solution |-> res.resolution_id, success |-> success]>>
    ELSE <<>>

RemediationResult(inc, id, outcome, conf, human, rollback, reason) ==
    [incident_id |-> inc.incident_id, remediation_id |-> id, outcome |-> outcome,
     confidence_at_execution |-> conf, human_intervention_required |-> human,
     rollback_performed |-> rollback, reason |-> reason]

_create_rejection_result(inc, res, reason) ==
    RemediationResult(inc, res.resolution_id, "rejected", res.confidence, TRUE, FALSE, reason)

\* A failure result that asks for no human intervention
_create_failure_result_Unattended(inc, res, error) ==
    RemediationResult(inc, res.resolution_id, "failure", res.confidence, FALSE, TRUE, error)

_create_failure_result(inc, res, error) ==
    RemediationResult(inc, res.resolution_id, "failure", res.confidence, TRUE, TRUE, error)

\* An error result that asks for no human intervention
_create_error_result_Unattended(inc, error) ==
    RemediationResult(inc, "error", "error", 0, FALSE, FALSE, error)

_create_error_result(inc, error) ==
    RemediationResult(inc, "error", "error", 0, TRUE, FALSE, error)

\* A success result that reports a rollback
SuccessResult_RolledBack(inc, res) ==
    RemediationResult(inc, res.resolution_id, "success", res.confidence, FALSE, TRUE, "")

SuccessResult(inc, res) ==
    RemediationResult(inc, res.resolution_id, "success", res.confidence, FALSE, FALSE, "")

----------------------------------------------------------------------------
\* The state after CodeHealerAgent(config): no call made yet.

\* KnowledgeRetriever with no retrieve_solutions call made.
RetrieverIdle ==
    /\ kr_pc = "idle"
    /\ source_results = [src \in {"cached", "slack", "vector", "llm"} |->
                             [state |-> "pending", results |-> <<>>]]
    /\ appended = <<>>
    /\ retrieved = <<>>
    /\ retrieval_raised = FALSE
    /\ retrieval_analysis = <<>>

\* FeedbackSystem.__init__: nothing recorded, nothing learned.
FeedbackIdle ==
    /\ record_calls = <<>>
    /\ knowledge_deprecation = [source_key \in {} |-> 0]
    /\ metrics_history = <<>>
    /\ confidence_adjustments = [calibration_key \in {} |-> 0]
    /\ learned_patterns = [pattern_key \in {} |-> 0]
    /\ imported = <<>>
    /\ tasks = <<>>
    /\ selections = <<>>

\* No call of FailureAnalyzer._combine_analyses yet.
AnalyzerIdle == combined = <<>>

Init ==
    /\ config \in Configs
    /\ calls = 0
    /\ pc = "idle"
    /\ caller = "none"
    /\ incident = <<>>
    /\ analysis = <<>>
    /\ candidates = <<>>
    /\ decision = <<>>
    /\ active_incidents = {}
    /\ incident_history = {}
    /\ registered = {}
    /\ stage_log = <<>>
    /\ returned = <<>>
    /\ selected_resolution = <<>>
    /\ remediation_plan = <<>>
    /\ executed = <<>>
    /\ action_failed = FALSE
    /\ verification_failed = FALSE
    /\ rollback_calls = 0
    /\ rollback_log = <<>>
    /\ remediation_result = <<>>
    /\ trace = <<>>
    /\ raised_in = "none"
    /\ active_remediations = {}
    /\ remediation_history = {}
    /\ success_rate_updates = <<>>
    /\ outcome_records = {}
    /\ RetrieverIdle
    /\ FeedbackIdle
    /\ AnalyzerIdle

\* Groups of variables
RetrieverVars ==
    <<kr_pc, source_results, appended, retrieved, retrieval_raised, retrieval_analysis>>

FeedbackVars ==
    <<record_calls, knowledge_deprecation, metrics_history, confidence_adjustments,
      learned_patterns,
      imported, tasks, selections>>

AnalyzerVars == <<combined>>

ComponentVars == <<RetrieverVars, FeedbackVars, AnalyzerVars>>

AgentDicts == <<active_incidents, incident_history, registered, outcome_records>>

CoordinatorState == <<active_remediations, remediation_history, success_rate_updates>>

CallInputs == <<config, calls, caller, incident, analysis>>

AgentLocals == <<decision, stage_log, returned>>

ExecutionLocals ==
    <<executed, action_failed, verification_failed, rollback_calls, rollback_log>>

CoordinationLocals ==
    <<selected_resolution, remediation_plan, remediation_result, trace, raised_in>>

\* A call returns value: its locals are gone.
Return(value) ==
    /\ returned' = <<value>>
    /\ pc' = "idle"
    /\ incident' = <<>>
    /\ analysis' = <<>>
    /\ candidates' = <<>>
    /\ decision' = <<>>
    /\ stage_log' = <<>>
    /\ selected_resolution' = <<>>
    /\ remediation_plan' = <<>>
    /\ executed' = <<>>
    /\ action_failed' = FALSE
    /\ verification_failed' = FALSE
    /\ rollback_calls' = 0
    /\ rollback_log' = <<>>
    /\ remediation_result' = <<>>
    /\ trace' = <<>>
    /\ raised_in' = "none"

----------------------------------------------------------------------------
\* RemediationCoordinator.coordinate_remediation, called directly

\* except Exception as e: return self._create_error_result(incident, str(e))
CoordinationError(step) ==
    /\ raised_in' = step
    /\ remediation_result' = <<_create_error_result(Val(incident), step)>>
    /\ pc' = "coord_return"

\* The call, up to the first step: an empty list of candidates returns None.
CoordinateRemediation ==
    /\ pc = "idle"
    /\ calls < MaxCalls
    /\ calls' = calls + 1
    /\ caller' = "direct"
    /\ returned' = <<>>
    /\ \E env \in Environments, case \in DirectCases, cands \in ListsOf(CallerCandidates) :
          /\ incident' = <<[incident_id |-> calls + 1, source |-> case.source,
                            environment |-> env]>>
          /\ analysis' = <<case.analysis>>
          /\ candidates' = cands
          /\ pc' = IF cands = <<>> THEN "coord_return" ELSE "select"
    /\ UNCHANGED <<config, decision, stage_log, ExecutionLocals, CoordinationLocals,
                   AgentDicts, CoordinatorState>>
    /\ UNCHANGED ComponentVars

\* selected_resolution = await self._select_resolution(...)
SelectResolution ==
    /\ pc = "select"
    /\ IF MinConfidenceThresholdRaises(config)
       THEN /\ CoordinationError("selection")
            /\ UNCHANGED <<selected_resolution, trace>>
       ELSE LET sel == _select_resolution(config, Val(incident), Val(analysis), candidates)
            IN  /\ selected_resolution' = sel
                /\ trace' = IF Opt(sel) THEN <<"SELECTED">> ELSE trace
                /\ pc' = IF Opt(sel) THEN "plan" ELSE "coord_return"
                /\ UNCHANGED <<raised_in, remediation_result>>
    /\ UNCHANGED <<CallInputs, candidates, AgentLocals, remediation_plan,
                   ExecutionLocals, AgentDicts, CoordinatorState>>
    /\ UNCHANGED ComponentVars

\* remediation_plan = await self._create_remediation_plan(...)
CreateRemediationPlan ==
    /\ pc = "plan"
    /\ LET inc == Val(incident)
           an == Val(analysis)
           res == Val(selected_resolution)
       IN  IF AssessRiskRaises(config, inc, an, _determine_remediation_actions(inc, an))
           THEN /\ CoordinationError("planning")
                /\ UNCHANGED <<remediation_plan, trace>>
           ELSE /\ remediation_plan' = <<_create_remediation_plan(config, inc, an, res)>>
                /\ trace' = Append(trace, "PLANNED")
                /\ pc' = "gate"
                /\ UNCHANGED <<raised_in, remediation_result>>
    /\ UNCHANGED <<CallInputs, candidates, AgentLocals, selected_resolution,
                   ExecutionLocals, AgentDicts, CoordinatorState>>
    /\ UNCHANGED ComponentVars

\* _execute_remediation, up to its first await: the context is registered.
BeginExecution ==
    /\ active_remediations' = active_remediations \cup {Val(incident).incident_id}
    /\ pc' = "execute"

\* if not await self._should_proceed_with_remediation(...): rejection;
\* then the test of remediation_plan.approval_required
ShouldProceed ==
    /\ pc = "gate"
    /\ LET inc == Val(incident)
           res == Val(selected_resolution)
           plan == Val(remediation_plan)
       IN  IF ShouldProceedRaises(config, inc)
           THEN /\ CoordinationError("gating")
                /\ UNCHANGED <<trace, active_remediations>>
           ELSE IF ~_should_proceed_with_remediation(config, inc, res, plan)
           THEN /\ remediation_result' =
                        <<_create_rejection_result(inc, res, "Risk too high")>>
                /\ trace' = Append(trace, "REJECTED")
                /\ pc' = "coord_return"
                /\ UNCHANGED <<raised_in, active_remediations>>
           ELSE IF plan.approval_required
           THEN /\ trace' = Append(trace, "APPROVAL_PENDING")
                /\ pc' = "approval"
                /\ UNCHANGED <<raised_in, remediation_result, active_remediations>>
           ELSE /\ trace' = Append(trace, "EXECUTING")
                /\ BeginExecution
                /\ UNCHANGED <<raised_in, remediation_result>>
    /\ UNCHANGED <<CallInputs, candidates, AgentLocals, selected_resolution,
                   remediation_plan, ExecutionLocals, AgentDicts,
                   remediation_history, success_rate_updates>>
    /\ UNCHANGED ComponentVars

\* approval_granted = await self._handle_approval_workflow(...)
HandleApprovalWorkflow ==
    /\ pc = "approval"
    /\ LET inc == Val(incident)
           res == Val(selected_resolution)
           plan == Val(remediation_plan)
       IN  /\ remediation_plan' = <<_handle_approval_workflow(inc, res, plan)>>
           /\ IF ApprovalGranted(inc, res)
              THEN /\ trace' = trace \o <<"APPROVED", "EXECUTING">>
                   /\ BeginExecution
                   /\ UNCHANGED remediation_result
              ELSE /\ remediation_result' =
                           <<_create_rejection_result(inc, res, "Approval required")>>
                   /\ trace' = Append(trace, "REJECTED")
                   /\ pc' = "coord_return"
                   /\ UNCHANGED active_remediations
    /\ UNCHANGED <<CallInputs, candidates, AgentLocals, selected_resolution,
                   raised_in, ExecutionLocals, AgentDicts,
                   remediation_history, success_rate_updates>>
    /\ UNCHANGED ComponentVars

\* One turn of "for action in plan.actions": success = await
\* self._execute_action(action, context); a failure records the outcome for
\* the solution tracking and calls _rollback_remediation.
ExecuteAction ==
    /\ pc = "execute"
    /\ Len(executed) < Len(Val(remediation_plan).actions)
    /\ LET plan == Val(remediation_plan)
           res == Val(selected_resolution)
           action == plan.actions[Len(executed) + 1]
       IN  \E success \in ActionOutcomes(config, Val(analysis), action) :
              /\ executed' = Append(executed, action)
              /\ IF success
                 THEN /\ pc' = IF Len(executed) + 1 = Len(plan.actions)
                               THEN "verify" ELSE "execute"
                      /\ UNCHANGED <<action_failed, success_rate_updates, rollback_calls>>
                 ELSE /\ action_failed' = TRUE
                      /\ success_rate_updates' =
                             success_rate_updates
                                 \o _update_solution_success_tracking(res, FALSE)
                      /\ rollback_calls' = rollback_calls + 1
                      /\ pc' = "rollback"
    /\ UNCHANGED <<CallInputs, candidates, AgentLocals, CoordinationLocals,
                   verification_failed, rollback_log, AgentDicts,
                   active_remediations, remediation_history>>
    /\ UNCHANGED ComponentVars

\* The end of _execute_remediation: the finally clause drops the context, and
\* coordinate_remediation files the result in remediation_history.
EndExecution(result) ==
    /\ remediation_result' = <<result>>
    /\ active_remediations' = active_remediations \ {Val(incident).incident_id}
    /\ remediation_history' = remediation_history \cup {Val(incident).incident_id}
    /\ pc' = "coord_return"

\* verification_success = await self._verify_remediation_success(context)
VerifyRemediation ==
    /\ pc = "verify"
    /\ LET inc == Val(incident)
           res == Val(selected_resolution)
       IN  IF _verify_remediation_success
           THEN /\ success_rate_updates' =
                       success_rate_updates \o _update_solution_success_tracking(res, TRUE)
                /\ trace' = Append(trace, "VERIFIED")
                /\ EndExecution(SuccessResult(inc, res))
                /\ UNCHANGED <<verification_failed, rollback_calls>>
           ELSE /\ verification_failed' = TRUE
                /\ success_rate_updates' =
                       success_rate_updates \o _update_solution_success_tracking(res, FALSE)
                /\ rollback_calls' = rollback_calls + 1
                /\ pc' = "rollback"
                /\ UNCHANGED <<trace, remediation_result, active_remediations,
                               remediation_history>>
    /\ UNCHANGED <<CallInputs, candidates, AgentLocals, selected_resolution,
                   remediation_plan, raised_in, executed, action_failed,
                   rollback_log, AgentDicts>>
    /\ UNCHANGED ComponentVars

\* _rollback_remediation: one turn of "for step in context.plan.rollback_plan",
\* and after the last one the failure result.
RollbackRemediation ==
    /\ pc = "rollback"
    /\ LET inc == Val(incident)
           res == Val(selected_resolution)
           plan == Val(remediation_plan)
       IN  IF Len(rollback_log) < Len(plan.rollback_plan)
           THEN /\ rollback_log' =
                       Append(rollback_log, plan.rollback_plan[Len(rollback_log) + 1])
                /\ UNCHANGED <<pc, trace, remediation_result, active_remediations,
                               remediation_history>>
           ELSE /\ trace' = Append(trace, "ROLLED_BACK")
                /\ EndExecution(_create_failure_result(inc, res,
                        IF action_failed THEN "Action failed" ELSE "Verification failed"))
                /\ UNCHANGED rollback_log
    /\ UNCHANGED <<CallInputs, candidates, AgentLocals, selected_resolution,
                   remediation_plan, raised_in, executed, action_failed,
                   verification_failed, rollback_calls, AgentDicts,
                   success_rate_updates>>
    /\ UNCHANGED ComponentVars

\* coordinate_remediation returns: to its caller, or into
\* CodeHealerAgent._execute_remediation.
CoordinateReturn ==
    /\ pc = "coord_return"
    /\ IF caller = "direct"
       THEN Return(remediation_result)
       ELSE /\ stage_log' = Append(stage_log, "coordination_returned")
            /\ pc' = "track"
            /\ UNCHANGED <<incident, analysis, candidates, decision, returned,
                           ExecutionLocals, CoordinationLocals>>
    /\ UNCHANGED <<config, calls, caller, AgentDicts, CoordinatorState>>
    /\ UNCHANGED ComponentVars

----------------------------------------------------------------------------
\* CodeHealerAgent.process_failure_event

\* thresholds.get(environment, thresholds.get("default", 0.85))
Agent_get_min_confidence_threshold(cfg, environment) ==
    IF environment \in DOMAIN cfg.agent_thresholds
    THEN cfg.agent_thresholds[environment]
    ELSE IF "default" \in DOMAIN cfg.agent_thresholds
    THEN cfg.agent_thresholds["default"]
    ELSE 85

\* The first candidate of maximal selection score instead of maximal confidence
BestCandidate_HighestScore(cands) ==
    cands[CHOOSE i \in 1..Len(cands) :
            /\ \A j \in 1..Len(cands) :
                   _calculate_candidate_score(cands[j]) <= _calculate_candidate_score(cands[i])
            /\ \A j \in 1..(i-1) :
                   _calculate_candidate_score(cands[j]) < _calculate_candidate_score(cands[i])]

\* candidates.sort(key=lambda x: x.confidence, reverse=True); candidates[0]
BestCandidate(cands) ==
    cands[CHOOSE i \in 1..Len(cands) :
            /\ \A j \in 1..Len(cands) : cands[j].confidence <= cands[i].confidence
            /\ \A j \in 1..(i-1) : cands[j].confidence < cands[i].confidence]

_make_remediation_decision(cfg, inc, an, cands) ==
    IF cands = <<>>
    THEN [should_remediate |-> FALSE, selected_resolution |-> <<>>,
          all_candidates |-> cands]
    ELSE LET best_candidate == BestCandidate(cands)
             min_confidence == Agent_get_min_confidence_threshold(cfg, inc.environment)
             should_remediate ==
                 best_candidate.confidence >= min_confidence /\ an.fixability = "auto"
         IN  [should_remediate |-> should_remediate,
              selected_resolution |->
                  IF should_remediate THEN <<best_candidate>> ELSE <<>>,
              all_candidates |-> cands]

\* best_candidate.confidence >= min_confidence raises TypeError when the
\* threshold read from the configuration is no number.
MakeDecisionRaises(cfg, cands) == cands # <<>> /\ ~cfg.agent_thresholds_numeric

_determine_outcome_type(result) ==
    IF result = <<>> THEN "escalated"
    ELSE CASE Val(result).outcome = "success" -> "success"
           [] Val(result).outcome = "failure" -> "failure"
           [] Val(result).outcome = "partial" -> "partial"
           [] Val(result).outcome = "rejected" -> "escalated"
           [] OTHER -> "failure"

\* The OutcomeRecord that record_outcome stores for the incident.
OutcomeRecord(inc, result) ==
    [incident_id |-> inc.incident_id, outcome_type |-> _determine_outcome_type(result)]

\* The call, up to "analysis = await self._analyze_failure(incident)": an
\* event that process_webhook_event does not turn into an incident returns an
\* error before anything is registered.
ProcessFailureEvent ==
    /\ pc = "idle"
    /\ calls < MaxCalls
    /\ calls' = calls + 1
    /\ caller' = "agent"
    /\ \E normalized \in BOOLEAN, env \in Environments, src \in EventSources,
          error_log \in ErrorLogs :
          IF normalized
          THEN /\ incident' = <<[incident_id |-> calls + 1, source |-> src,
                                 environment |-> env, error_log |-> error_log]>>
               /\ active_incidents' = active_incidents \cup {calls + 1}
               /\ registered' = registered \cup {calls + 1}
               /\ returned' = <<>>
               /\ pc' = "analyze"
          ELSE /\ returned' = <<[status |-> "error", automated |-> FALSE]>>
               /\ UNCHANGED <<incident, active_incidents, registered, pc>>
    /\ UNCHANGED <<config, analysis, candidates, decision, stage_log,
                   ExecutionLocals, CoordinationLocals,
                   incident_history, outcome_records, CoordinatorState>>
    /\ UNCHANGED ComponentVars

\* analysis = await self._analyze_failure(incident).  analyze_failure returns
\* an analysis on every path, so "if not analysis" is never taken.
AnalyzeFailure ==
    /\ pc = "analyze"
    /\ analysis' = <<analyze_failure(Val(incident))>>
    /\ stage_log' = Append(stage_log, "analysis")
    /\ pc' = "retrieve"
    /\ UNCHANGED <<config, calls, caller, incident, candidates, decision, returned,
                   ExecutionLocals, CoordinationLocals, AgentDicts, CoordinatorState>>
    /\ UNCHANGED ComponentVars

\* resolution_candidates = await self._retrieve_solutions(incident, analysis):
\* retrieve_solutions returns its candidates sorted by confidence, or [] when
\* it failed.
RetrieveSolutions ==
    /\ pc = "retrieve"
    /\ candidates' \in {l \in ListsOf(RetrievedCandidates) : SortedByConfidence(l)}
    /\ stage_log' = Append(stage_log, "retrieval")
    /\ pc' = "decide"
    /\ UNCHANGED <<CallInputs, decision, returned,
                   ExecutionLocals, CoordinationLocals, AgentDicts, CoordinatorState>>
    /\ UNCHANGED ComponentVars

\* remediation_decision = await self._make_remediation_decision(...), and
\* then either the call of coordinate_remediation(incident, analysis,
\* [selected_resolution]) or straight on to _update_tracking.  An exception
\* reaches the handler of process_failure_event, which deletes the incident
\* from active_incidents and returns an error.
MakeRemediationDecision ==
    /\ pc = "decide"
    /\ IF MakeDecisionRaises(config, candidates)
       THEN /\ active_incidents' = active_incidents \ {Val(incident).incident_id}
            /\ Return([status |-> "error", automated |-> FALSE])
       ELSE LET d == _make_remediation_decision(config, Val(incident), Val(analysis),
                                                candidates)
            IN  /\ decision' = <<d>>
                /\ stage_log' = Append(stage_log,
                       IF d.should_remediate THEN "coordination" ELSE "no_remediation")
                /\ candidates' = IF d.should_remediate THEN d.selected_resolution
                                 ELSE candidates
                /\ pc' = IF d.should_remediate THEN "select" ELSE "track"
                /\ UNCHANGED <<incident, analysis, active_incidents, returned,
                               ExecutionLocals, CoordinationLocals>>
    /\ UNCHANGED <<config, calls, caller, incident_history, registered,
                   outcome_records, CoordinatorState>>
    /\ UNCHANGED ComponentVars

\* _update_tracking started without awaiting the coordinator
UpdateTracking_NotAwaited ==
    /\ pc \in {"track", "select", "plan", "gate", "approval", "execute", "verify",
               "rollback", "coord_return"}
    /\ caller = "agent"
    /\ outcome_records' =
           outcome_records \cup {OutcomeRecord(Val(incident), remediation_result)}
    /\ stage_log' = Append(stage_log, "feedback")
    /\ pc' = "notify"
    /\ UNCHANGED <<CallInputs, candidates, decision, returned,
                   ExecutionLocals, CoordinationLocals,
                   active_incidents, incident_history, registered, CoordinatorState>>
    /\ UNCHANGED ComponentVars

\* await self._update_tracking(incident, analysis, remediation_result)
UpdateTracking ==
    /\ pc = "track"
    /\ outcome_records' =
           outcome_records \cup {OutcomeRecord(Val(incident), remediation_result)}
    /\ stage_log' = Append(stage_log, "feedback")
    /\ pc' = "notify"
    /\ UNCHANGED <<CallInputs, candidates, decision, returned,
                   ExecutionLocals, CoordinationLocals,
                   active_incidents, incident_history, registered, CoordinatorState>>
    /\ UNCHANGED ComponentVars

\* await self._send_notifications(...); then the incident moves from
\* active_incidents to incident_history and the call returns.
SendNotifications ==
    /\ pc = "notify"
    /\ LET id == Val(incident).incident_id
       IN  IF id \in active_incidents
           THEN /\ active_incidents' = active_incidents \ {id}
                /\ incident_history' = incident_history \cup {id}
           ELSE UNCHANGED <<active_incidents, incident_history>>
    /\ Return([status |-> "success", automated |-> remediation_result # <<>>])
    /\ UNCHANGED <<config, calls, caller, registered, outcome_records,
                   CoordinatorState>>
    /\ UNCHANGED ComponentVars

----------------------------------------------------------------------------

Next ==
    \/ CoordinateRemediation
    \/ SelectResolution
    \/ CreateRemediationPlan
    \/ ShouldProceed
    \/ HandleApprovalWorkflow
    \/ ExecuteAction
    \/ VerifyRemediation
    \/ RollbackRemediation
    \/ CoordinateReturn
    \/ ProcessFailureEvent
    \/ AnalyzeFailure
    \/ RetrieveSolutions
    \/ MakeRemediationDecision
    \/ UpdateTracking
    \/ SendNotifications

Spec == Init /\ [][Next]_vars

----------------------------------------------------------------------------
\* KnowledgeRetriever.  Scores of the sources are percentages; the confidence
\* of a candidate built here is in units of 1e-4 (0.905 is 9050).

\* The sources, in the order their candidates are appended.
SourceOrder == <<"cached", "slack", "vector", "llm">>

SourceNames == {SourceOrder[i] : i \in 1..Len(SourceOrder)}

\* A step string, as the prefix a conversion puts before it and the text.
Step(prefix, text) == <<prefix, text>>

\* The messages slack_client.search_for_solutions can return:
\* keyword_matches is the number of search keywords found in the text,
\* thread_messages the length of the thread.
SlackMessages ==
    {[text |-> "argocd app sync", code_blocks |-> <<>>, thread_messages |-> 0,
      is_admin |-> FALSE, keyword_matches |-> 0],
     [text |-> "restart", code_blocks |-> <<"kubectl rollout restart">>,
      thread_messages |-> 2, is_admin |-> TRUE, keyword_matches |-> 1],
     [text |-> "", code_blocks |-> <<"kubectl rollout restart">>,
      thread_messages |-> 0, is_admin |-> FALSE, keyword_matches |-> 0]}

\* The results _vector_knn_search can return: its first mock result, a past
\* incident resolved by the steps of a Slack message, and a result of an
\* index whose similarity score is not a cosine in [0, 1].
VectorSearchResults ==
    {[resolution_steps |-> <<Step("", "Mock resolution step 1 for result 0"),
                             Step("", "Mock resolution step 2 for result 0")>>,
      similarity_score |-> 85, success_rate |-> 90],
     [resolution_steps |-> <<Step("Context: ", "argocd app sync")>>,
      similarity_score |-> 75, success_rate |-> 70],
     [resolution_steps |-> <<Step("", "scale deployment")>>,
      similarity_score |-> -500, success_rate |-> 70]}

\* The solutions _parse_llm_solutions can return: the first mock solution,
\* one whose self-reported confidence is negative, one whose confidence is
\* no number.
LlmSolutions ==
    {[steps |-> <<Step("", "Re-trigger the workflow via GitHub API")>>,
      confidence |-> 70, numeric |-> TRUE],
     [steps |-> <<Step("", "scale deployment")>>,
      confidence |-> -50, numeric |-> TRUE],
     [steps |-> <<Step("", "Monitor execution for success")>>,
      confidence |-> 0, numeric |-> FALSE]}

\* slack_client._calculate_relevance
_calculate_relevance(message) ==
    message.keyword_matches * 10 + message.thread_messages * 2
        + Len(message.code_blocks) * 5

\* _calculate_social_proof, as a percentage
_calculate_social_proof(slack_message) ==
    Min(10 + Min(slack_message.thread_messages * 2, 20)
           + (IF slack_message.is_admin THEN 15 ELSE 0)
           + Min(Len(slack_message.code_blocks) * 5, 25),
        100)

\* The SlackSolution _search_slack_solutions builds of a message.
SlackSolution(solution) ==
    [solution_text |-> solution.text,
     code_blocks |-> solution.code_blocks,
     social_proof_score |-> _calculate_social_proof(solution),
     relevance_score |-> _calculate_relevance(solution)]

\* A ResolutionCandidate, as far as retrieval goes.
RetrievedCandidate(src, steps, confidence) ==
    [source |-> src, steps |-> steps, confidence |-> confidence]

\* _cached_llm_to_candidate: ResolutionCandidate(...) is called with the
\* keywords success_indicators, rollback_instructions and metadata, which the
\* dataclass does not have; the TypeError is caught and None returned.
_cached_llm_to_candidate(cached_solution) == <<>>

\* _slack_to_candidate: min(0.90 + social proof * 0.05 + relevance * 0.01, 0.98)
_slack_to_candidate(slack_solution) ==
    LET steps ==
            [i \in 1..Len(slack_solution.code_blocks) |->
                Step("Execute: ", slack_solution.code_blocks[i])]
            \o (IF slack_solution.solution_text # ""
                THEN <<Step("Context: ", slack_solution.solution_text)>>
                ELSE <<>>)
        confidence ==
            Min(9000 + slack_solution.social_proof_score * 5
                     + slack_solution.relevance_score * 100,
                9800)
    IN  <<RetrievedCandidate("slack", steps, confidence)>>

\* _vector_to_candidate:
\* min(0.80 + (similarity - 0.75) * 0.2 + (success rate - 0.7) * 0.1, 0.95)
_vector_to_candidate(vector_result) ==
    LET confidence ==
            Min(8000 + (vector_result.similarity_score - 75) * 20
                     + (vector_result.success_rate - 70) * 10,
                9500)
    IN  <<RetrievedCandidate("vector_db", vector_result.resolution_steps, confidence)>>

\* _llm_to_candidate: min(0.65, min(float(confidence), 0.8)); a confidence
\* float() cannot convert raises ValueError, and None is returned.
_llm_to_candidate(llm_solution) ==
    IF ~llm_solution.numeric THEN <<>>
    ELSE <<RetrievedCandidate("llm_analysis", llm_solution.steps,
                              Min(6500, Min(llm_solution.confidence * 100, 8000)))>>

\* json.dumps(candidate.steps, sort_keys=True): the text of the list.
JsonDumps(steps) ==
    <<"[">>
    \o Flatten([i \in 1..Len(steps) |->
                    (IF i > 1 THEN <<", ">> ELSE <<>>)
                    \o <<"\"", steps[i][1], steps[i][2], "\"">>])
    \o <<"]">>

\* hashlib.md5(...).hexdigest(), taken to be free of collisions: the digest
\* is represented by the text it was computed from.
ContentHash(candidate) == JsonDumps(candidate.steps)

\* The loop of _deduplicate_candidates over the candidates left.
RECURSIVE DeduplicateLoop(_, _, _)
DeduplicateLoop(cands, seen_hashes, unique_candidates) ==
    IF cands = <<>> THEN unique_candidates
    ELSE LET content_hash == ContentHash(Head(cands))
         IN  IF content_hash \notin seen_hashes
             THEN DeduplicateLoop(Tail(cands), seen_hashes \cup {content_hash},
                                  Append(unique_candidates, Head(cands)))
             ELSE DeduplicateLoop(Tail(cands), seen_hashes, unique_candidates)

\* A deduplication that compares each candidate with its predecessor only
RECURSIVE _deduplicate_candidates_AdjacentOnly(_)
_deduplicate_candidates_AdjacentOnly(cands) ==
    IF Len(cands) < 2 THEN cands
    ELSE LET rest == _deduplicate_candidates_AdjacentOnly(Tail(cands))
         IN  IF ContentHash(cands[1]) = ContentHash(cands[2])
             THEN <<cands[1]>> \o Tail(rest)
             ELSE <<cands[1]>> \o rest

\* A deduplication that keeps the last candidate of each content
RECURSIVE _deduplicate_candidates_KeepLast(_)
_deduplicate_candidates_KeepLast(cands) ==
    IF cands = <<>> THEN <<>>
    ELSE IF \E i \in 2..Len(cands) : ContentHash(cands[i]) = ContentHash(cands[1])
         THEN _deduplicate_candidates_KeepLast(Tail(cands))
         ELSE <<cands[1]>> \o _deduplicate_candidates_KeepLast(Tail(cands))

_deduplicate_candidates(cands) == DeduplicateLoop(cands, {}, <<>>)

\* list.sort is stable: a candidate goes before the first one of a lower
\* confidence.
RECURSIVE InsertByConfidence(_, _)
InsertByConfidence(sorted, c) ==
    IF sorted = <<>> THEN <<c>>
    ELSE IF Head(sorted).confidence < c.confidence THEN <<c>> \o sorted
    ELSE <<Head(sorted)>> \o InsertByConfidence(Tail(sorted), c)

RECURSIVE SortLoop(_, _)
SortLoop(cands, sorted) ==
    IF cands = <<>> THEN sorted
    ELSE SortLoop(Tail(cands), InsertByConfidence(sorted, Head(cands)))

\* A sort that leaves the list as it is
SortByConfidence_Unsorted(cands) == cands

\* candidates.sort(key=lambda x: x.confidence, reverse=True)
SortByConfidence(cands) == SortLoop(cands, <<>>)

\* What one knowledge source gave: its call raised, or it returned results.
SourcePending == [state |-> "pending", results |-> <<>>]

SourceRaised == [state |-> "raised", results |-> <<>>]

\* The task of a source that is awaited without end: its query was sent and
\* no answer, error or timeout ever comes back.
SourceHung == [state |-> "hung", results |-> <<>>]

SourceReturned(results) == [state |-> "returned", results |-> results]

\* The candidates of one source: an exception inside a source is caught by
\* the source ("except Exception: return []"), and an exception object
\* returned by gather is replaced by [].
SourceCandidates(src, outcome) ==
    IF outcome.state # "returned" THEN <<>>
    ELSE LET results == outcome.results
         IN  Flatten([i \in 1..Len(results) |->
                 CASE src = "cached" -> _cached_llm_to_candidate(results[i])
                   [] src = "slack" -> _slack_to_candidate(results[i])
                   [] src = "vector" -> _vector_to_candidate(results[i])
                   [] OTHER -> _llm_to_candidate(results[i])])

\* candidates, after the four loops that append to it.
AppendedCandidates(results) ==
    Flatten([i \in 1..Len(SourceOrder) |->
                SourceCandidates(SourceOrder[i], results[SourceOrder[i]])])

\* A retrieval that gives up when one source raised
retrieve_solutions_AllOrNothing(results) ==
    IF \E src \in SourceNames : results[src].state = "raised"
    THEN <<>>
    ELSE SortByConfidence(_deduplicate_candidates(AppendedCandidates(results)))

\* What retrieve_solutions returns for the outcomes of its sources.
retrieve_solutions(results) ==
    SortByConfidence(_deduplicate_candidates(AppendedCandidates(results)))

----------------------------------------------------------------------------
\* KnowledgeRetriever.retrieve_solutions, called on a retriever of its own

\* The variables of the agent and of its coordinator
AgentVars ==
    <<config, calls, pc, caller, incident, analysis, candidates, decision,
      active_incidents, incident_history, registered, stage_log, returned,
      selected_resolution, remediation_plan, executed, action_failed,
      verification_failed, rollback_calls, rollback_log, remediation_result, trace,
      raised_in, active_remediations, remediation_history, success_rate_updates,
      outcome_records>>

\* The confidence (in percent) of the analysis retrieve_solutions is called
\* with: below, at and above the 0.8 of _generate_llm_solutions.
AnalysisConfidences == {60, 80, 90}

\* search_for_solutions returns its messages sorted by relevance, highest first.
SortedByRelevance(messages) ==
    \A i \in 1..(Len(messages) - 1) :
        _calculate_relevance(messages[i]) >= _calculate_relevance(messages[i+1])

\* similar_llm_solutions = await self.retrieve_similar_llm_solutions(...):
\* the cache _llm_solution_cache is filled by _store_llm_solution only, after
\* it has read analysis.summary, which FailureAnalysis does not have; and a
\* failure inside retrieve_similar_llm_solutions is caught there.  Either way
\* the list is empty.
RetrieveSimilarLlmSolutions ==
    /\ kr_pc = "idle"
    /\ \E failed \in BOOLEAN :
          source_results' =
              [source_results EXCEPT
                  !["cached"] = IF failed THEN SourceRaised ELSE SourceReturned(<<>>)]
    /\ \E analysis_confidence \in AnalysisConfidences :
          retrieval_analysis' = <<[confidence |-> analysis_confidence]>>
    /\ kr_pc' = "gather"
    /\ UNCHANGED <<appended, retrieved, retrieval_raised, FeedbackVars, AnalyzerVars, AgentVars>>

\* _search_slack_solutions: no client, a search that raises, or the messages
\* found, each made a SlackSolution.
SearchSlackSolutions ==
    /\ kr_pc = "gather"
    /\ source_results["slack"].state = "pending"
    /\ \/ source_results' = [source_results EXCEPT !["slack"] = SourceRaised]
       \/ \E messages \in {l \in ListsOf(SlackMessages) : SortedByRelevance(l)} :
             source_results' =
                 [source_results EXCEPT
                     !["slack"] = SourceReturned(
                         [i \in 1..Len(messages) |-> SlackSolution(messages[i])])]
    /\ UNCHANGED <<kr_pc, appended, retrieved, retrieval_raised, retrieval_analysis,
                   FeedbackVars, AnalyzerVars, AgentVars>>

\* _search_vector_database
SearchVectorDatabase ==
    /\ kr_pc = "gather"
    /\ source_results["vector"].state = "pending"
    /\ \/ source_results' = [source_results EXCEPT !["vector"] = SourceRaised]
       \/ \E vector_results \in ListsOf(VectorSearchResults) :
             source_results' =
                 [source_results EXCEPT !["vector"] = SourceReturned(vector_results)]
    /\ UNCHANGED <<kr_pc, appended, retrieved, retrieval_raised, retrieval_analysis,
                   FeedbackVars, AnalyzerVars, AgentVars>>

\* if analysis.confidence > 0.8: return [] -- the test of
\* _generate_llm_solutions that decides whether the model is asked.
SkipsLlmGeneration(an) == an.confidence > 80

\* _generate_llm_solutions: nothing is generated for an analysis of a
\* confidence above 0.8; otherwise the model is asked, and its answer is the
\* solutions parsed from it, or an exception.
GenerateLlmSolutions ==
    /\ kr_pc = "gather"
    /\ source_results["llm"].state = "pending"
    /\ IF SkipsLlmGeneration(Val(retrieval_analysis))
       THEN source_results' = [source_results EXCEPT !["llm"] = SourceReturned(<<>>)]
       ELSE \/ source_results' = [source_results EXCEPT !["llm"] = SourceRaised]
            \/ \E solutions \in ListsOf(LlmSolutions) :
                  source_results' =
                      [source_results EXCEPT !["llm"] = SourceReturned(solutions)]
    /\ UNCHANGED <<kr_pc, appended, retrieved, retrieval_raised, retrieval_analysis,
                   FeedbackVars, AnalyzerVars, AgentVars>>

\* The Slack task never completes.  _search_slack_solutions calls
\* self.slack_client.search_for_solutions(...) of the client it was given
\* and imposes no timeout on it, and the three tasks are awaited by
\* asyncio.gather(slack_task, vector_task, llm_task, return_exceptions=True)
\* with no asyncio.wait_for around a task or around the gather.  (The
\* embedding request of the vector source has a 30 s timeout and the model
\* call of the third source is a fixed sleep: these two always complete.)
SourceNeverCompletes ==
    /\ kr_pc = "gather"
    /\ source_results["slack"].state = "pending"
    /\ source_results' = [source_results EXCEPT !["slack"] = SourceHung]
    /\ UNCHANGED <<kr_pc, appended, retrieved, retrieval_raised, retrieval_analysis,
                   FeedbackVars, AnalyzerVars, AgentVars>>

\* After asyncio.gather: the candidates are appended, deduplicated, sorted
\* and returned.  No statement of this part raises, so the outer
\* "except Exception: return []" is not taken.
CollectCandidates ==
    /\ kr_pc = "gather"
    /\ \A src \in {"slack", "vector", "llm"} :
          source_results[src].state \in {"raised", "returned"}
    /\ appended' = AppendedCandidates(source_results)
    /\ retrieved' = <<retrieve_solutions(source_results)>>
    /\ retrieval_raised' = FALSE
    /\ kr_pc' = "done"
    /\ UNCHANGED <<source_results, retrieval_analysis, FeedbackVars, AnalyzerVars, AgentVars>>

RetrievalInit == Init /\ config = LambdaConfig

RetrievalNext ==
    \/ RetrieveSimilarLlmSolutions
    \/ SearchSlackSolutions
    \/ SearchVectorDatabase
    \/ GenerateLlmSolutions
    \/ SourceNeverCompletes
    \/ CollectCandidates

RetrievalSpec == RetrievalInit /\ [][RetrievalNext]_vars

\* asyncio.gather returns: every awaited task has raised or returned.  Each
\* CollectCandidates step is such a step.
GatherReturns ==
    /\ kr_pc = "gather"
    /\ \A src \in {"slack", "vector", "llm"} :
          source_results[src].state \in {"raised", "returned"}
    /\ kr_pc' = "done"

\* The event loop runs every step that can run: the cached lookup is made, a
\* source that is still pending answers (or, for Slack, is left waiting), and
\* the statements after the gather run once it has returned.
RetrievalLiveSpec ==
    /\ RetrievalInit
    /\ [][RetrievalNext]_vars
    /\ WF_vars(RetrieveSimilarLlmSolutions)
    /\ WF_vars(SearchSlackSolutions)
    /\ WF_vars(SearchVectorDatabase)
    /\ WF_vars(GenerateLlmSolutions)
    /\ WF_kr_pc(GatherReturns)

----------------------------------------------------------------------------
\* FeedbackSystem

\* Bound on the number of record_outcome calls.
MaxRecords == 2

\* self.feedback_config of a system built with FEEDBACK_MIN_SAMPLES=2;
\* deprecation_threshold is the default 0.3 and learning_rate the default
\* 0.1 (a percentage, like the confidences).  Effectiveness scores are in
\* units of 1e-4.
FeedbackConfig ==
    [min_sample_size |-> 2, deprecation_threshold |-> 3000, learning_rate |-> 10]

\* The resolution argument of record_outcome: None, a ResolutionCandidate, or
\* an object whose source is a plain string and no ResolutionSource.
Resolutions ==
    {[candidate |-> <<>>, source_is_enum |-> TRUE],
     [candidate |-> <<Candidate("slack-95", "slack", 95, 95, TRUE, 0, FALSE)>>,
      source_is_enum |-> TRUE],
     [candidate |-> <<Candidate("slack-95", "slack", 95, 95, TRUE, 0, FALSE)>>,
      source_is_enum |-> FALSE]}

ResolutionTimes == {300, 900}

\* The remediation_result argument: None or a RemediationResult.
RemediationResults ==
    {<<>>} \cup
    {<<[outcome |-> o, resolution_time_seconds |-> t, human_intervention_required |-> h]>> :
        o \in {"success", "partial", "failure"}, t \in ResolutionTimes, h \in BOOLEAN}

\* The human_feedback argument: None, a dict with a rating, or a truthy
\* object that is no dict.
HumanFeedbacks == {"none", "helpful", "not_helpful", "not_a_dict"}

\* _calculate_effectiveness_score, in units of 1e-4: time_factor * 0.2 is
\* max(0, 1 - t/600) * 2000 = max(0, 600 - t) * 10 / 3.
_calculate_effectiveness_score(result, human_feedback) ==
    IF result = <<>> THEN 0
    ELSE LET r == Val(result)
             base == CASE r.outcome = "success" -> 7000
                       [] r.outcome = "partial" -> 4000
                       [] r.outcome = "failure" -> 1000
                       [] OTHER -> 0
             time == IF r.resolution_time_seconds > 0
                     THEN (Max0(600 - r.resolution_time_seconds) * 10) \div 3
                     ELSE 0
             unattended == IF r.human_intervention_required THEN 0 ELSE 1000
             rating == CASE human_feedback = "helpful" -> 1000
                         [] human_feedback = "not_helpful" -> -1000
                         [] OTHER -> 0
         IN  Min(Max0(base + time + unattended + rating), 10000)

\* human_feedback.get(...) on an object that is no dict: AttributeError, in
\* _calculate_effectiveness_score when there is a remediation result,
\* otherwise in _extract_actual_root_cause while the OutcomeRecord is built.
ScoringRaises(result, human_feedback) == Opt(result) /\ human_feedback = "not_a_dict"

RecordBuildRaises(human_feedback) == human_feedback = "not_a_dict"

\* resolution.source.value in _update_confidence_calibration, the first step
\* of _update_learning.
LearningRaises(resolution) == Opt(resolution.candidate) /\ ~resolution.source_is_enum

\* m["timestamp"] >= cutoff in _update_metrics: TypeError when an entry of
\* metrics_history holds its timestamp as a string.
MetricsRaises(history) == \E i \in 1..Len(history) : history[i] = "str"

\* The first step of record_outcome that raises, "none" when none does.
\* _update_metrics appends its entry before it filters the history.
RecordOutcomeFault(resolution, result, human_feedback, history) ==
    IF ScoringRaises(result, human_feedback) THEN "scoring"
    ELSE IF RecordBuildRaises(human_feedback) THEN "record"
    ELSE IF LearningRaises(resolution) THEN "learning"
    ELSE IF MetricsRaises(Append(history, "datetime")) THEN "metrics"
    ELSE "none"

\* A record_outcome without its try/except
RecordOutcomeRaises_NoHandler(fault) == fault # "none"

\* record_outcome: the whole body is inside try/except Exception, which logs.
RecordOutcomeRaises(fault) == FALSE

\* source_key = f"{resolution.source.value}_{resolution.resolution_id}"
SourceKey(source, resolution_id) == <<source, resolution_id>>

\* A window that keeps its oldest entries
LastN_KeepsOldest(l, n) == IF Len(l) > n THEN SubSeq(l, 1, n) ELSE l

\* l[-n:]
LastN(l, n) == IF Len(l) > n THEN SubSeq(l, Len(l) - n + 1, Len(l)) ELSE l

RECURSIVE SeqSum(_)
SeqSum(l) == IF l = <<>> THEN 0 ELSE Head(l) + SeqSum(Tail(l))

\* An update that writes the entry of the key anew, whatever it held
_update_knowledge_effectiveness_Overwrite(kd, resolution, outcome_type, score) ==
    IF ~Opt(resolution.candidate) THEN kd
    ELSE LET c == Val(resolution.candidate)
             key == SourceKey(c.source, c.resolution_id)
         IN  [k \in DOMAIN kd \cup {key} |->
                 IF k = key
                 THEN [total_uses |-> 1,
                       successful_uses |-> IF outcome_type = "success" THEN 1 ELSE 0,
                       effectiveness_scores |-> <<score>>,
                       deprecated |-> FALSE]
                 ELSE kd[k]]

_update_knowledge_effectiveness(kd, resolution, outcome_type, score) ==
    IF ~Opt(resolution.candidate) THEN kd
    ELSE LET c == Val(resolution.candidate)
             key == SourceKey(c.source, c.resolution_id)
             old == IF key \in DOMAIN kd THEN kd[key]
                    ELSE [total_uses |-> 0, successful_uses |-> 0,
                          effectiveness_scores |-> <<>>, deprecated |-> FALSE]
             new == [total_uses |-> old.total_uses + 1,
                     successful_uses |-> old.successful_uses
                                         + (IF outcome_type = "success" THEN 1 ELSE 0),
                     effectiveness_scores |->
                         LastN(Append(old.effectiveness_scores, score), 50),
                     deprecated |-> old.deprecated]
         IN  [k \in DOMAIN kd \cup {key} |-> IF k = key THEN new ELSE kd[k]]

\* A deprecation check that averages the whole history of scores
_check_solution_deprecation_WholeHistory(cfg, kd, resolution) ==
    IF ~Opt(resolution.candidate) THEN kd
    ELSE LET c == Val(resolution.candidate)
             key == SourceKey(c.source, c.resolution_id)
         IN  IF key \notin DOMAIN kd THEN kd
             ELSE IF kd[key].total_uses < cfg.min_sample_size THEN kd
             ELSE LET scores == kd[key].effectiveness_scores
                  IN  IF SeqSum(scores) < cfg.deprecation_threshold * Len(scores)
                      THEN [kd EXCEPT ![key].deprecated = TRUE]
                      ELSE kd

\* avg_effectiveness < deprecation_threshold, over the last 20 scores
_check_solution_deprecation(cfg, kd, resolution) ==
    IF ~Opt(resolution.candidate) THEN kd
    ELSE LET c == Val(resolution.candidate)
             key == SourceKey(c.source, c.resolution_id)
         IN  IF key \notin DOMAIN kd THEN kd
             ELSE IF kd[key].total_uses < cfg.min_sample_size THEN kd
             ELSE LET recent_scores == LastN(kd[key].effectiveness_scores, 20)
                  IN  IF SeqSum(recent_scores) < cfg.deprecation_threshold * Len(recent_scores)
                      THEN [kd EXCEPT ![key].deprecated = TRUE]
                      ELSE kd

\* The analysis argument of the record_outcome calls modelled.
RecordedAnalysis ==
    DirectCase("github_actions", "dependency", "network_failure", "auto", 0, FALSE).analysis

\* calibration_key = f"{category}_{subcategory}_{resolution.source.value}"
CalibrationKey(an, source) == <<an.category, an.subcategory, source>>

\* An adjustment is the exact quotient num / den, in percent.
Adjustment(num, den) == [num |-> num, den |-> den]

\* A calibration that computes the adjustment once, when the window reaches
\* min_sample_size
_update_confidence_calibration_FrozenAtMinimum(cfg, ca, an, resolution, outcome_type) ==
    IF ~Opt(resolution.candidate) THEN ca
    ELSE LET c == Val(resolution.candidate)
             key == CalibrationKey(an, c.source)
             old == IF key \in DOMAIN ca THEN ca[key]
                    ELSE [predictions |-> <<>>, outcomes |-> <<>>,
                          adjustment |-> Adjustment(0, 1)]
             predictions == LastN(Append(old.predictions, c.confidence), 100)
             outcomes ==
                 LastN(Append(old.outcomes, IF outcome_type = "success" THEN 100 ELSE 0),
                       100)
             new == [predictions |-> predictions,
                     outcomes |-> outcomes,
                     adjustment |->
                         IF Len(predictions) = cfg.min_sample_size
                         THEN Adjustment(
                                  (SeqSum(outcomes) - SeqSum(predictions)) * cfg.learning_rate,
                                  Len(predictions) * 100)
                         ELSE old.adjustment]
         IN  [k \in DOMAIN ca \cup {key} |-> IF k = key THEN new ELSE ca[k]]

\* _update_confidence_calibration: the pair (resolution.confidence, 1.0 for a
\* success and 0.0 otherwise) is appended, the last 100 pairs are kept, and
\* from min_sample_size pairs on the adjustment is
\* (mean_outcome - mean_prediction) * learning_rate.
_update_confidence_calibration(cfg, ca, an, resolution, outcome_type) ==
    IF ~Opt(resolution.candidate) THEN ca
    ELSE LET c == Val(resolution.candidate)
             key == CalibrationKey(an, c.source)
             old == IF key \in DOMAIN ca THEN ca[key]
                    ELSE [predictions |-> <<>>, outcomes |-> <<>>,
                          adjustment |-> Adjustment(0, 1)]
             predictions == LastN(Append(old.predictions, c.confidence), 100)
             outcomes ==
                 LastN(Append(old.outcomes, IF outcome_type = "success" THEN 100 ELSE 0),
                       100)
             new == [predictions |-> predictions,
                     outcomes |-> outcomes,
                     adjustment |->
                         IF Len(predictions) >= cfg.min_sample_size
                         THEN Adjustment(
                                  (SeqSum(outcomes) - SeqSum(predictions)) * cfg.learning_rate,
                                  Len(predictions) * 100)
                         ELSE old.adjustment]
         IN  [k \in DOMAIN ca \cup {key} |-> IF k = key THEN new ELSE ca[k]]

\* get_confidence_adjustment(category, subcategory, source)
get_confidence_adjustment(ca, key) ==
    IF key \in DOMAIN ca THEN ca[key].adjustment ELSE Adjustment(0, 1)

should_deprecate_solution(kd, resolution_id, source) ==
    /\ SourceKey(source, resolution_id) \in DOMAIN kd
    /\ kd[SourceKey(source, resolution_id)].deprecated

\* _create_error_signature: the log is lowercased, the snippets after error,
\* failed, exception and timeout are joined and hashed; logs with the same
\* lowercased snippets have the same signature.
_create_error_signature(error_log) ==
    CASE error_log = "Error: connection refused by registry.npmjs.org" -> "md5-refused"
      [] error_log = "ERROR: Connection refused by registry.npmjs.org" -> "md5-refused"
      [] OTHER -> "md5-readiness"

\* The incident argument of the record_outcome calls that do not choose it.
RecordedIncident == [error_log |-> "Error: connection refused by registry.npmjs.org"]

\* pattern_key = f"{analysis.primary_category.value}_{error_signature}"
PatternKey(an, inc) == <<an.category, _create_error_signature(inc.error_log)>>

\* self.learned_patterns[pattern_key] = PatternLearning(..., 0.0, 0, 0, ...)
NewPattern == [confidence_adjustment |-> 0, success_count |-> 0, failure_count |-> 0]

\* A pattern learning that counts every outcome
_learn_patterns_EveryOutcome(lp, inc, an, outcome_type, score) ==
    LET pattern_key == PatternKey(an, inc)
        old == IF pattern_key \in DOMAIN lp THEN lp[pattern_key] ELSE NewPattern
        new == IF score > 7000
               THEN [confidence_adjustment |-> Min(old.confidence_adjustment + 1, 10),
                     success_count |-> old.success_count + 1,
                     failure_count |-> old.failure_count]
               ELSE [confidence_adjustment |-> Max(old.confidence_adjustment - 1, -10),
                     success_count |-> old.success_count,
                     failure_count |-> old.failure_count + 1]
    IN  [k \in DOMAIN lp \cup {pattern_key} |-> IF k = pattern_key THEN new ELSE lp[k]]

\* _learn_patterns: for a success only; the pattern of the key is created
\* with adjustment 0.0 and both counts 0, then an effectiveness score above
\* 0.7 counts as a success and adds 0.01 (at most 0.1), any other score
\* counts as a failure and subtracts 0.01 (at least -0.1).  Adjustments are in
\* hundredths.
_learn_patterns(lp, inc, an, outcome_type, score) ==
    IF outcome_type # "success" THEN lp
    ELSE LET pattern_key == PatternKey(an, inc)
             old == IF pattern_key \in DOMAIN lp THEN lp[pattern_key] ELSE NewPattern
             new == IF score > 7000
                    THEN [confidence_adjustment |-> Min(old.confidence_adjustment + 1, 10),
                          success_count |-> old.success_count + 1,
                          failure_count |-> old.failure_count]
                    ELSE [confidence_adjustment |-> Max(old.confidence_adjustment - 1, -10),
                          success_count |-> old.success_count,
                          failure_count |-> old.failure_count + 1]
         IN  [k \in DOMAIN lp \cup {pattern_key} |->
                 IF k = pattern_key THEN new ELSE lp[k]]

\* The tables of the FeedbackSystem that record_outcome reads and writes.
FeedbackState ==
    [record_calls |-> record_calls,
     confidence_adjustments |-> confidence_adjustments,
     learned_patterns |-> learned_patterns,
     knowledge_deprecation |-> knowledge_deprecation,
     metrics_history |-> metrics_history]

\* record_outcome(incident, analysis, resolution, remediation_result,
\* human_feedback) of a system built with cfg, in state fs: the state it
\* leaves.  The record is stored before _update_learning and _update_metrics
\* run; a step that raises ends the call, nothing after it runs.  No
\* coroutine awaited by record_outcome suspends, so a call runs to its end
\* without another task in between.
record_outcome(cfg, fs, inc, resolution, result, human_feedback) ==
    LET fault == RecordOutcomeFault(resolution, result, human_feedback, fs.metrics_history)
        score == _calculate_effectiveness_score(result, human_feedback)
        outcome_type == _determine_outcome_type(result)
        learned == fault \in {"metrics", "none"}
    IN  [record_calls |->
             Append(fs.record_calls,
                 [incident |-> inc,
                  resolution |-> resolution,
                  remediation_result |-> result,
                  human_feedback |-> human_feedback,
                  outcome_type |-> outcome_type,
                  effectiveness_score |-> IF fault = "scoring" THEN <<>> ELSE <<score>>,
                  stored |-> fault \notin {"scoring", "record"},
                  swallowed |-> fault,
                  raised |-> RecordOutcomeRaises(fault)]),
         confidence_adjustments |->
             IF learned
             THEN _update_confidence_calibration(cfg, fs.confidence_adjustments,
                      RecordedAnalysis, resolution, outcome_type)
             ELSE fs.confidence_adjustments,
         learned_patterns |->
             IF learned
             THEN _learn_patterns(fs.learned_patterns, inc, RecordedAnalysis,
                                  outcome_type, score)
             ELSE fs.learned_patterns,
         knowledge_deprecation |->
             IF learned
             THEN _check_solution_deprecation(cfg,
                      _update_knowledge_effectiveness(fs.knowledge_deprecation,
                          resolution, outcome_type, score),
                      resolution)
             ELSE fs.knowledge_deprecation,
         metrics_history |->
             IF learned THEN Append(fs.metrics_history, "datetime")
             ELSE fs.metrics_history]

\* A record_outcome call on the FeedbackSystem built with FEEDBACK_MIN_SAMPLES=2
RecordOutcome ==
    /\ Len(record_calls) < MaxRecords
    /\ \E resolution \in Resolutions, result \in RemediationResults,
          human_feedback \in HumanFeedbacks :
          LET after == record_outcome(FeedbackConfig, FeedbackState, RecordedIncident,
                                      resolution, result, human_feedback)
          IN  /\ record_calls' = after.record_calls
              /\ confidence_adjustments' = after.confidence_adjustments
              /\ learned_patterns' = after.learned_patterns
              /\ knowledge_deprecation' = after.knowledge_deprecation
              /\ metrics_history' = after.metrics_history
    /\ selections' = <<>>
    /\ imported' = <<>>
    /\ UNCHANGED <<tasks, RetrieverVars, AnalyzerVars, AgentVars>>

\* import_learning_data(data) with the metrics_history of a backup that went
\* through JSON: one entry, its timestamp a string.
ImportLearningData ==
    /\ metrics_history' = <<"str">>
    /\ UNCHANGED <<record_calls, knowledge_deprecation, confidence_adjustments,
                   learned_patterns, imported, tasks, selections>>
    /\ UNCHANGED <<RetrieverVars, AnalyzerVars, AgentVars>>

\* The candidate lists passed to coordinate_remediation after feedback.
SelectionLists ==
    {<<Candidate("slack-95", "slack", 95, 95, TRUE, 0, FALSE)>>,
     <<Candidate("vector-80", "vector_db", 80, 70, FALSE, 90, FALSE),
       Candidate("slack-95", "slack", 95, 95, TRUE, 0, FALSE)>>,
     <<Candidate("vector-80", "vector_db", 80, 70, FALSE, 90, FALSE)>>}

\* The selection of a coordinate_remediation call made on the coordinator of
\* the same agent: _select_resolution reads the candidates, the thresholds
\* and the analysis, and nothing of the FeedbackSystem.
SelectResolutionAfterFeedback ==
    /\ \E env \in Environments, cands \in SelectionLists :
          selections' = _select_resolution(config,
                            [incident_id |-> 0, source |-> "github_actions",
                             environment |-> env],
                            DirectCase("github_actions", "dependency", "network_failure",
                                       "auto", 0, FALSE).analysis,
                            cands)
    /\ UNCHANGED <<record_calls, knowledge_deprecation, metrics_history,
                   confidence_adjustments, learned_patterns, imported, tasks>>
    /\ UNCHANGED <<RetrieverVars, AnalyzerVars, AgentVars>>

FeedbackInit == Init /\ config = LambdaConfig

FeedbackNext ==
    \/ RecordOutcome
    \/ ImportLearningData
    \/ SelectResolutionAfterFeedback

FeedbackSpec == FeedbackInit /\ [][FeedbackNext]_vars

----------------------------------------------------------------------------
\* Scoring of one outcome, and the dump and restore of the learning data

\* Bound on the number of record_outcome calls before a dump.
MaxScored == 1

ScoredResolutions ==
    {[candidate |-> <<>>, source_is_enum |-> TRUE],
     [candidate |-> <<Candidate("slack-95", "slack", 95, 95, TRUE, 0, FALSE)>>,
      source_is_enum |-> TRUE]}

\* resolution_time_seconds: 0 is what _create_failure_result,
\* _create_rejection_result and _create_error_result set.
ScoredTimes == {0, 300, 600, 900}

ScoredResults ==
    {<<>>} \cup
    {<<[outcome |-> o, resolution_time_seconds |-> t, human_intervention_required |-> h]>> :
        o \in {"success", "partial", "failure"}, t \in ScoredTimes, h \in BOOLEAN}

ScoredFeedbacks == {"none", "helpful", "not_helpful"}

\* A record_outcome call with a well-formed resolution, result and feedback
RecordScoredOutcome ==
    /\ Len(record_calls) < MaxScored
    /\ \E resolution \in ScoredResolutions, result \in ScoredResults,
          human_feedback \in ScoredFeedbacks :
          LET after == record_outcome(FeedbackConfig, FeedbackState, RecordedIncident,
                                      resolution, result, human_feedback)
          IN  /\ record_calls' = after.record_calls
              /\ confidence_adjustments' = after.confidence_adjustments
              /\ learned_patterns' = after.learned_patterns
              /\ knowledge_deprecation' = after.knowledge_deprecation
              /\ metrics_history' = after.metrics_history
    /\ selections' = <<>>
    /\ imported' = <<>>
    /\ UNCHANGED <<tasks, RetrieverVars, AnalyzerVars, AgentVars>>

\* self.outcome_records: the OutcomeRecords stored, each with the
\* timestamp=datetime.utcnow() it was built with.
StoredOutcomeRecords(calls_made) ==
    LET stored == SelectSeq(calls_made, LAMBDA r : r.stored)
    IN  [i \in 1..Len(stored) |->
            [remediation_id |-> IF Opt(stored[i].resolution.candidate)
                                THEN Val(stored[i].resolution.candidate).resolution_id
                                ELSE "none",
             outcome_type |-> stored[i].outcome_type,
             effectiveness_score |-> stored[i].effectiveness_score,
             timestamp |-> "datetime"]]

\* export_learning_data: asdict(outcome) copies the fields of a record as
\* they are, the timestamp stays a datetime; the two tables are passed on.
export_learning_data(records, ca, kd) ==
    [outcome_records |-> records,
     confidence_adjustments |-> ca,
     knowledge_deprecation |-> kd]

\* datetime.fromisoformat(value): TypeError for anything but a str.
FromIsoformatRaises(value) == value # "str"

\* import_learning_data(data) into a fresh FeedbackSystem: the records are
\* converted one by one, then the tables are taken over; the first exception
\* ends the import (it is logged), what was assigned before it stays.
import_learning_data(data) ==
    LET bad == {i \in 1..Len(data.outcome_records) :
                   FromIsoformatRaises(data.outcome_records[i].timestamp)}
    IN  IF bad = {}
        THEN [outcome_records |->
                  [i \in 1..Len(data.outcome_records) |->
                      [data.outcome_records[i] EXCEPT !.timestamp = "datetime"]],
              confidence_adjustments |-> data.confidence_adjustments,
              knowledge_deprecation |-> data.knowledge_deprecation]
        ELSE LET first == CHOOSE i \in bad : \A j \in bad : i <= j
             IN  [outcome_records |->
                      [i \in 1..(first - 1) |->
                          [data.outcome_records[i] EXCEPT !.timestamp = "datetime"]],
                  confidence_adjustments |-> [calibration_key \in {} |-> 0],
                  knowledge_deprecation |-> [source_key \in {} |-> 0]]

\* fresh = FeedbackSystem(config);
\* fresh.import_learning_data(self.export_learning_data())
ExportImportLearningData ==
    /\ imported' = <<import_learning_data(
                        export_learning_data(StoredOutcomeRecords(record_calls),
                                             confidence_adjustments,
                                             knowledge_deprecation))>>
    /\ UNCHANGED <<record_calls, knowledge_deprecation, metrics_history,
                   confidence_adjustments, learned_patterns, tasks, selections>>
    /\ UNCHANGED <<RetrieverVars, AnalyzerVars, AgentVars>>

ScoringInit == Init /\ config = LambdaConfig

ScoringNext ==
    \/ RecordScoredOutcome
    \/ ExportImportLearningData

ScoringSpec == ScoringInit /\ [][ScoringNext]_vars

----------------------------------------------------------------------------
\* record_outcome calls of incidents processed concurrently.  A call is split
\* at each of its awaits (its coroutines do not suspend, so the event loop
\* switches at a subset of these points).

\* Bound on the number of concurrent record_outcome tasks.
MaxTasks == 2

\* The resolutions of the concurrent incidents: two sources, two keys.
TaskResolutions ==
    {[candidate |-> <<c>>, source_is_enum |-> TRUE] :
        c \in {Candidate("slack-95", "slack", 95, 95, TRUE, 0, FALSE),
               Candidate("vector-80", "vector_db", 80, 70, FALSE, 90, FALSE)}}

\* Their remediation results: a quick unattended success, a slow failure.
TaskResults ==
    {<<[outcome |-> "success", resolution_time_seconds |-> 300,
        human_intervention_required |-> FALSE]>>,
     <<[outcome |-> "failure", resolution_time_seconds |-> 900,
        human_intervention_required |-> TRUE]>>}

TaskAt(t, position) == t \in 1..Len(tasks) /\ tasks[t].pc = position

\* record_outcome up to "await self._update_learning(...)": the score is
\* computed and the OutcomeRecord stored.
StartRecordOutcome ==
    /\ Len(tasks) < MaxTasks
    /\ \E resolution \in TaskResolutions, result \in TaskResults :
          LET score == _calculate_effectiveness_score(result, "none")
              outcome_type == _determine_outcome_type(result)
          IN  /\ tasks' = Append(tasks, [pc |-> "calibration", resolution |-> resolution,
                                         outcome_type |-> outcome_type,
                                         effectiveness_score |-> score])
              /\ record_calls' = Append(record_calls,
                    [incident |-> RecordedIncident,
                     resolution |-> resolution,
                     remediation_result |-> result,
                     human_feedback |-> "none",
                     outcome_type |-> outcome_type,
                     effectiveness_score |-> <<score>>,
                     stored |-> TRUE,
                     swallowed |-> "none",
                     raised |-> RecordOutcomeRaises("none")])
    /\ UNCHANGED <<knowledge_deprecation, metrics_history, confidence_adjustments,
                   learned_patterns, imported, selections>>
    /\ UNCHANGED <<RetrieverVars, AnalyzerVars, AgentVars>>

\* await self._update_confidence_calibration(analysis, resolution, outcome)
TaskUpdateCalibration ==
    /\ \E t \in 1..Len(tasks) :
          /\ TaskAt(t, "calibration")
          /\ confidence_adjustments' =
                 _update_confidence_calibration(FeedbackConfig, confidence_adjustments,
                     RecordedAnalysis, tasks[t].resolution, tasks[t].outcome_type)
          /\ tasks' = [tasks EXCEPT ![t].pc = "patterns"]
    /\ UNCHANGED <<record_calls, knowledge_deprecation, metrics_history, learned_patterns,
                   imported, selections>>
    /\ UNCHANGED <<RetrieverVars, AnalyzerVars, AgentVars>>

\* await self._learn_patterns(incident, analysis, outcome)
TaskLearnPatterns ==
    /\ \E t \in 1..Len(tasks) :
          /\ TaskAt(t, "patterns")
          /\ learned_patterns' =
                 _learn_patterns(learned_patterns, RecordedIncident, RecordedAnalysis,
                     tasks[t].outcome_type, tasks[t].effectiveness_score)
          /\ tasks' = [tasks EXCEPT ![t].pc = "knowledge"]
    /\ UNCHANGED <<record_calls, knowledge_deprecation, metrics_history,
                   confidence_adjustments, imported, selections>>
    /\ UNCHANGED <<RetrieverVars, AnalyzerVars, AgentVars>>

\* await self._update_knowledge_effectiveness(resolution, outcome)
TaskUpdateKnowledge ==
    /\ \E t \in 1..Len(tasks) :
          /\ TaskAt(t, "knowledge")
          /\ knowledge_deprecation' =
                 _update_knowledge_effectiveness(knowledge_deprecation, tasks[t].resolution,
                     tasks[t].outcome_type, tasks[t].effectiveness_score)
          /\ tasks' = [tasks EXCEPT ![t].pc = "deprecation"]
    /\ UNCHANGED <<record_calls, metrics_history, confidence_adjustments,
                   learned_patterns, imported, selections>>
    /\ UNCHANGED <<RetrieverVars, AnalyzerVars, AgentVars>>

\* await self._check_solution_deprecation(resolution, outcome)
TaskCheckDeprecation ==
    /\ \E t \in 1..Len(tasks) :
          /\ TaskAt(t, "deprecation")
          /\ knowledge_deprecation' =
                 _check_solution_deprecation(FeedbackConfig, knowledge_deprecation,
                                             tasks[t].resolution)
          /\ tasks' = [tasks EXCEPT ![t].pc = "metrics"]
    /\ UNCHANGED <<record_calls, metrics_history, confidence_adjustments,
                   learned_patterns, imported, selections>>
    /\ UNCHANGED <<RetrieverVars, AnalyzerVars, AgentVars>>

\* await self._update_metrics(), and the call returns.
TaskUpdateMetrics ==
    /\ \E t \in 1..Len(tasks) :
          /\ TaskAt(t, "metrics")
          /\ metrics_history' = Append(metrics_history, "datetime")
          /\ tasks' = [tasks EXCEPT ![t].pc = "done"]
    /\ UNCHANGED <<record_calls, knowledge_deprecation, confidence_adjustments,
                   learned_patterns, imported, selections>>
    /\ UNCHANGED <<RetrieverVars, AnalyzerVars, AgentVars>>

ConcurrentInit == Init /\ config = LambdaConfig

ConcurrentNext ==
    \/ StartRecordOutcome
    \/ TaskUpdateCalibration
    \/ TaskLearnPatterns
    \/ TaskUpdateKnowledge
    \/ TaskCheckDeprecation
    \/ TaskUpdateMetrics

ConcurrentSpec == ConcurrentInit /\ [][ConcurrentNext]_vars

----------------------------------------------------------------------------
\* The calibration window of one key, filled record by record

\* Bound on the number of record_outcome calls that fill the window.
MaxSamples == 12

\* self.feedback_config as lambda_handler builds it: FEEDBACK_MIN_SAMPLES
\* defaults to 10, learning_rate is 0.1, deprecation_threshold is 0.3.
LambdaFeedbackConfig ==
    [min_sample_size |-> 10, deprecation_threshold |-> 3000, learning_rate |-> 10]

\* A Slack solution of confidence 0.85
CalibratedResolution ==
    [candidate |-> <<Candidate("slack-85", "slack", 85, 95, TRUE, 0, FALSE)>>,
     source_is_enum |-> TRUE]

\* A record_outcome call for that solution: it worked, or it failed.
RecordCalibrationSample ==
    /\ Len(record_calls) < MaxSamples
    /\ \E result \in TaskResults :
          LET after == record_outcome(LambdaFeedbackConfig, FeedbackState,
                                      RecordedIncident, CalibratedResolution,
                                      result, "none")
          IN  /\ record_calls' = after.record_calls
              /\ confidence_adjustments' = after.confidence_adjustments
              /\ learned_patterns' = after.learned_patterns
              /\ knowledge_deprecation' = after.knowledge_deprecation
              /\ metrics_history' = after.metrics_history
    /\ selections' = <<>>
    /\ imported' = <<>>
    /\ UNCHANGED <<tasks, RetrieverVars, AnalyzerVars, AgentVars>>

CalibrationInit == Init /\ config = LambdaConfig

CalibrationNext == RecordCalibrationSample

CalibrationSpec == CalibrationInit /\ [][CalibrationNext]_vars

----------------------------------------------------------------------------
\* Pattern learning, record by record

\* Bound on the number of record_outcome calls that teach patterns.
MaxPatternCalls == 12

\* Bound on the number of runs of identical calls in a sequence of calls.
MaxRuns == 3

\* The number of runs of equal neighbours in a sequence.
Runs(inputs) ==
    Cardinality({i \in 1..Len(inputs) : i = 1 \/ inputs[i] # inputs[i-1]})

\* The incident and remediation result of the calls made so far.
CallsMade ==
    [i \in 1..Len(record_calls) |->
        <<record_calls[i].incident, record_calls[i].remediation_result>>]

\* A slow success that needed a human: its effectiveness score is 0.7
\* exactly.
SlowSuccess ==
    <<[outcome |-> "success", resolution_time_seconds |-> 900,
       human_intervention_required |-> TRUE]>>

\* A partial result.
PartialResult ==
    <<[outcome |-> "partial", resolution_time_seconds |-> 300,
       human_intervention_required |-> FALSE]>>

\* A quick unattended success: its effectiveness score is 0.9.
QuickSuccess ==
    <<[outcome |-> "success", resolution_time_seconds |-> 300,
       human_intervention_required |-> FALSE]>>

\* A slow failure.
SlowFailure ==
    <<[outcome |-> "failure", resolution_time_seconds |-> 900,
       human_intervention_required |-> TRUE]>>

\* The (incident, remediation result) pairs of the calls: quick and slow
\* successes for logs of two signatures, a failure, a partial result, and a
\* call with no result (an escalation).
PatternCalls ==
    {<<[error_log |-> "Error: connection refused by registry.npmjs.org"], QuickSuccess>>,
     <<[error_log |-> "Error: connection refused by registry.npmjs.org"], SlowSuccess>>,
     <<[error_log |-> "ERROR: Connection refused by registry.npmjs.org"], SlowSuccess>>,
     <<[error_log |-> "Timeout: waiting for the readiness probe of the pod"], QuickSuccess>>,
     <<RecordedIncident, SlowFailure>>,
     <<RecordedIncident, PartialResult>>,
     <<RecordedIncident, <<>> >>}

\* A record_outcome call for an incident with one of the logs; the calls of
\* a sequence come in at most MaxRuns runs of identical calls.
RecordPatternOutcome ==
    /\ Len(record_calls) < MaxPatternCalls
    /\ \E call \in PatternCalls :
          /\ Runs(Append(CallsMade, call)) <= MaxRuns
          /\ LET after == record_outcome(LambdaFeedbackConfig, FeedbackState, call[1],
                                         CalibratedResolution, call[2], "none")
             IN  /\ record_calls' = after.record_calls
                 /\ confidence_adjustments' = after.confidence_adjustments
                 /\ learned_patterns' = after.learned_patterns
                 /\ knowledge_deprecation' = after.knowledge_deprecation
                 /\ metrics_history' = after.metrics_history
    /\ selections' = <<>>
    /\ imported' = <<>>
    /\ UNCHANGED <<tasks, RetrieverVars, AnalyzerVars, AgentVars>>

PatternInit == Init /\ config = LambdaConfig

PatternNext == RecordPatternOutcome

PatternSpec == PatternInit /\ [][PatternNext]_vars

----------------------------------------------------------------------------
\* The rolling windows, filled beyond their lengths

\* Bound on the number of record_outcome calls that fill the windows.
MaxWindowCalls == 102

\* Bound on the number of runs of identical calls among them.
MaxWindowRuns == 2

\* Two Slack solutions of one calibration key, of confidence 0.85 and 0.95.
WindowResolutions ==
    {[candidate |-> <<c>>, source_is_enum |-> TRUE] :
        c \in {Candidate("slack-85", "slack", 85, 95, TRUE, 0, FALSE),
               Candidate("slack-95", "slack", 95, 95, TRUE, 0, FALSE)}}

\* The resolution and remediation result of the calls made so far.
WindowCallsMade ==
    [i \in 1..Len(record_calls) |->
        <<record_calls[i].resolution, record_calls[i].remediation_result>>]

\* A record_outcome call for one of the two solutions, which worked or
\* failed; the calls of a sequence come in at most MaxWindowRuns runs of
\* identical calls.
RecordWindowSample ==
    /\ Len(record_calls) < MaxWindowCalls
    /\ \E resolution \in WindowResolutions, result \in {QuickSuccess, SlowFailure} :
          /\ Runs(Append(WindowCallsMade, <<resolution, result>>)) <= MaxWindowRuns
          /\ LET after == record_outcome(LambdaFeedbackConfig, FeedbackState,
                                         RecordedIncident, resolution, result, "none")
             IN  /\ record_calls' = after.record_calls
                 /\ confidence_adjustments' = after.confidence_adjustments
                 /\ learned_patterns' = after.learned_patterns
                 /\ knowledge_deprecation' = after.knowledge_deprecation
                 /\ metrics_history' = after.metrics_history
    /\ selections' = <<>>
    /\ imported' = <<>>
    /\ UNCHANGED <<tasks, RetrieverVars, AnalyzerVars, AgentVars>>

WindowInit == Init /\ config = LambdaConfig

WindowNext == RecordWindowSample

WindowSpec == WindowInit /\ [][WindowNext]_vars

----------------------------------------------------------------------------
\* FailureAnalyzer._combine_analyses, called with a pattern analysis and a
\* model analysis

CombineAnalyses ==
    /\ \E inc \in FusionIncidents, llm_analysis \in LlmAnalyses :
          combined' = <<[incident |-> inc,
                         pattern_match |-> _pattern_match_analysis(inc),
                         llm_analysis |-> llm_analysis,
                         analysis |-> _combine_analyses(inc, _pattern_match_analysis(inc),
                                                        llm_analysis)]>>
    /\ UNCHANGED <<RetrieverVars, FeedbackVars, AgentVars>>

FusionInit == Init /\ config = LambdaConfig

FusionNext == CombineAnalyses

FusionSpec == FusionInit /\ [][FusionNext]_vars

----------------------------------------------------------------------------
\* Properties

CoordinatorPositions ==
    {"select", "plan", "gate", "approval", "execute", "verify", "rollback", "coord_return"}

\* C1: in a call of coordinate_remediation or of process_failure_event whose
\* analysis has a fixability other than auto, no candidate is selected (by
\* the agent's decision or by the coordinator) and no action is executed,
\* whatever the confidences of the candidates and the environment.
C1_NonAutoNeverRemediates ==
    (Opt(analysis) /\ Val(analysis).fixability # "auto") =>
        /\ selected_resolution = <<>>
        /\ remediation_plan = <<>>
        /\ executed = <<>>
        /\ Opt(decision) => ~Val(decision).should_remediate
        /\ Opt(decision) => Val(decision).selected_resolution = <<>>

\* A direct call with a candidate of confidence 0.95 in development, well
\* above the threshold, and fixability retry or investigate, after selection.
C1_Witness ==
    /\ pc = "coord_return"
    /\ caller = "direct"
    /\ raised_in = "none"
    /\ Val(analysis).fixability # "auto"
    /\ Val(incident).environment = "development"
    /\ \E i \in 1..Len(candidates) : candidates[i].confidence >= 95
    /\ remediation_result = <<>>

\* C2: _rollback_remediation is called exactly on the runs of
\* _execute_remediation in which an action or the verification failed, and
\* at most once; a run in which every action and the verification succeeded
\* runs no rollback step and returns outcome success with
\* rollback_performed = false, and every success result is such a run.
C2_RollbackIffFailure ==
    /\ rollback_calls = (IF action_failed \/ verification_failed THEN 1 ELSE 0)
    /\ rollback_log # <<>> => rollback_calls = 1
    /\ (pc = "coord_return" /\ Opt(remediation_plan)
            /\ executed = Val(remediation_plan).actions
            /\ ~action_failed /\ ~verification_failed) =>
          /\ rollback_calls = 0
          /\ rollback_log = <<>>
          /\ Opt(remediation_result)
          /\ Val(remediation_result).outcome = "success"
          /\ ~Val(remediation_result).rollback_performed
    /\ (Opt(remediation_result) /\ Val(remediation_result).outcome = "success") =>
          /\ ~action_failed /\ ~verification_failed
          /\ rollback_calls = 0
          /\ ~Val(remediation_result).rollback_performed
    /\ (Opt(remediation_result) /\ Val(remediation_result).rollback_performed) =>
          rollback_calls = 1

\* A clean run of a plan of two actions.
C2_Witness ==
    /\ pc = "coord_return"
    /\ Opt(remediation_plan)
    /\ Len(executed) = 2
    /\ executed = Val(remediation_plan).actions
    /\ ~action_failed
    /\ rollback_calls = 0
    /\ Val(remediation_result).outcome = "success"

\* The orders in which process_failure_event goes through its stages.
StageOrders ==
    {<<"analysis", "retrieval", "coordination", "coordination_returned", "feedback">>,
     <<"analysis", "retrieval", "no_remediation", "feedback">>}

\* C3: within a call of process_failure_event the stages run in the order
\* analysis, retrieval, decision and coordination, feedback, each after its
\* predecessor has completed, and the feedback for the incident is never
\* recorded before the coordinator, when called, has returned.
C3_StagesInOrder ==
    caller = "agent" =>
        /\ \E order \in StageOrders : IsPrefix(stage_log, order)
        /\ Contains(stage_log, "retrieval") => Opt(analysis)
        /\ Contains(stage_log, "coordination") =>
              Opt(decision) /\ Val(decision).should_remediate
        /\ pc \in CoordinatorPositions =>
              /\ ~Contains(stage_log, "feedback")
              /\ \A r \in outcome_records : r.incident_id # Val(incident).incident_id
        /\ Opt(selected_resolution) => Contains(stage_log, "coordination")
        /\ (Contains(stage_log, "feedback") /\ Contains(stage_log, "coordination")) =>
              Contains(stage_log, "coordination_returned")

\* The feedback of an incident recorded after a coordination that executed.
C3_Witness ==
    /\ caller = "agent"
    /\ pc = "notify"
    /\ executed # <<>>
    /\ stage_log = <<"analysis", "retrieval", "coordination", "coordination_returned",
                     "feedback">>
    /\ \E r \in outcome_records : r.incident_id = Val(incident).incident_id

\* C4: an incident that process_failure_event has registered is, at every
\* later point and after the call has returned on any path, in exactly one
\* of active_incidents and incident_history.
C4_ExactlyOneOfActiveAndHistory ==
    \A id \in registered : (id \in active_incidents) # (id \in incident_history)

\* The paths of a coordination: the states it goes through, in order.
CoordinationPaths ==
    {<<"SELECTED", "PLANNED", "APPROVAL_PENDING", "APPROVED", "EXECUTING", "VERIFIED">>,
     <<"SELECTED", "PLANNED", "APPROVAL_PENDING", "APPROVED", "EXECUTING", "ROLLED_BACK">>,
     <<"SELECTED", "PLANNED", "APPROVAL_PENDING", "REJECTED">>,
     <<"SELECTED", "PLANNED", "REJECTED">>,
     <<"SELECTED", "PLANNED", "EXECUTING", "VERIFIED">>,
     <<"SELECTED", "PLANNED", "EXECUTING", "ROLLED_BACK">>}

Last(seq) == seq[Len(seq)]

\* C5: a call of coordinate_remediation that selects a candidate goes through
\* SELECTED, PLANNED, then APPROVAL_PENDING and APPROVED or REJECTED, then
\* EXECUTING, then VERIFIED or ROLLED_BACK; actions are executed only once a
\* plan is built and its approval is not required or granted; and the result
\* has one of the outcomes success, failure, rejected, error, the one that the
\* state reached stands for.
C5_CoordinationStateMachine ==
    /\ \E path \in CoordinationPaths : IsPrefix(trace, path)
    /\ Opt(selected_resolution) <=> trace # <<>>
    /\ Opt(remediation_plan) <=> Contains(trace, "PLANNED")
    /\ (executed # <<>> \/ pc \in {"execute", "verify", "rollback"}) =>
          /\ Opt(remediation_plan)
          /\ Contains(trace, "EXECUTING")
          /\ Val(remediation_plan).approval_required =>
                /\ Val(remediation_plan).approval_status = "approved"
                /\ Contains(trace, "APPROVED")
          /\ ~Val(remediation_plan).approval_required =>
                /\ Val(remediation_plan).approval_status = "not_required"
                /\ ~Contains(trace, "APPROVAL_PENDING")
    /\ Opt(remediation_result) =>
          /\ Val(remediation_result).outcome \in {"success", "failure", "rejected", "error"}
          /\ Val(remediation_result).outcome = "success" <=>
                (trace # <<>> /\ Last(trace) = "VERIFIED")
          /\ Val(remediation_result).outcome = "failure" <=>
                (trace # <<>> /\ Last(trace) = "ROLLED_BACK")
          /\ Val(remediation_result).outcome = "rejected" <=>
                (trace # <<>> /\ Last(trace) = "REJECTED")
          /\ Val(remediation_result).outcome = "error" <=> raised_in # "none"
    /\ (pc = "coord_return" /\ Opt(selected_resolution)) => Opt(remediation_result)

\* A coordination that went through the approval and verified its actions.
C5_Witness ==
    /\ pc = "coord_return"
    /\ trace = <<"SELECTED", "PLANNED", "APPROVAL_PENDING", "APPROVED", "EXECUTING",
                 "VERIFIED">>
    /\ executed = Val(remediation_plan).actions
    /\ Val(remediation_result).outcome = "success"

\* C6: when the plan requires approval and the approval workflow does not
\* approve it, the plan's approval status stays pending, no action of the plan
\* is executed, no rollback runs, and the result has outcome rejected.
C6_UnapprovedPlanIsRejected ==
    (/\ pc \in {"coord_return", "track", "notify"}
     /\ Contains(trace, "APPROVAL_PENDING")
     /\ ~ApprovalGranted(Val(incident), Val(selected_resolution))) =>
        /\ Val(remediation_plan).approval_required
        /\ Val(remediation_plan).approval_status = "pending"
        /\ executed = <<>>
        /\ rollback_calls = 0
        /\ rollback_log = <<>>
        /\ Val(incident).incident_id \notin active_remediations
        /\ Opt(remediation_result)
        /\ Val(remediation_result).outcome = "rejected"
        /\ Val(remediation_result).reason = "Approval required"

\* A development plan that needs approval for a candidate of confidence 0.80,
\* which the workflow does not approve.
C6_Witness ==
    /\ pc = "coord_return"
    /\ Contains(trace, "APPROVAL_PENDING")
    /\ Val(incident).environment = "development"
    /\ Val(selected_resolution).confidence = 80
    /\ Val(remediation_plan).approval_status = "pending"
    /\ Val(remediation_result).outcome = "rejected"

\* The scenario of C7: a direct call for a production incident with
\* fixability auto whose best candidate has confidence 0.90, under the
\* thresholds of get_agent() (production 0.92), when the call is about to
\* return.
C7_Scenario ==
    /\ pc = "coord_return"
    /\ caller = "direct"
    /\ config.confidence_thresholds = DefaultConfidenceThresholds
    /\ Val(incident).environment = "production"
    /\ Val(analysis).fixability = "auto"
    /\ candidates # <<>>
    /\ BestCandidate(candidates).confidence = 90

C8_FailureStopsAndRollsBack ==
    /\ Opt(remediation_plan) => IsPrefix(executed, Val(remediation_plan).actions)
    /\ Opt(remediation_plan) => IsPrefix(rollback_log, Val(remediation_plan).rollback_plan)
    /\ executed # <<>> => Opt(remediation_plan)
    /\ pc = "verify" => executed = Val(remediation_plan).actions
    /\ action_failed =>
          /\ pc \notin {"execute", "verify"}
          /\ FALSE \in ActionOutcomes(config, Val(analysis), Last(executed))
          /\ \A i \in 1..(Len(executed) - 1) :
                TRUE \in ActionOutcomes(config, Val(analysis), executed[i])
          /\ rollback_calls = 1
          /\ pc # "rollback" =>
                /\ rollback_log = Val(remediation_plan).rollback_plan
                /\ Opt(remediation_result)
                /\ Val(remediation_result).outcome = "failure"
                /\ Val(remediation_result).human_intervention_required
                /\ Val(remediation_result).rollback_performed
                /\ Last(trace) = "ROLLED_BACK"

\* A failed github_update_config, with its two rollback steps run.
C8_Witness ==
    /\ pc = "coord_return"
    /\ action_failed
    /\ executed = <<"github_update_config">>
    /\ Len(rollback_log) = 2
    /\ Val(remediation_result).outcome = "failure"

C10_Scenario ==
    /\ pc = "coord_return"
    /\ Opt(remediation_result)
    /\ Val(remediation_result).outcome \in {"success", "failure"}
    /\ Val(selected_resolution).source = "llm_analysis"

\* C10 as stated: the outcome of such a run has been passed to
\* update_solution_success_rate.
C10_OutcomePropagated ==
    C10_Scenario =>
        \E i \in 1..Len(success_rate_updates) :
            /\ success_rate_updates[i].solution = Val(selected_resolution).resolution_id
            /\ success_rate_updates[i].success =
                   (Val(remediation_result).outcome = "success")

\* A successful run for a cached solution of the source llm_analysis.
C10_Witness ==
    /\ C10_Scenario
    /\ Val(selected_resolution).cached_solution
    /\ Val(remediation_result).outcome = "success"
    /\ success_rate_updates = <<>>


----------------------------------------------------------------------------
\* C16: analyze_failure never raises, and the analysis it returns when the
\* analysis failed (the fallback analysis) has fixability investigate and
\* confidence 0.3, so that no action is executed for an incident that was
\* analysed by the fallback.
C16_FallbackIsConservative ==
    (/\ caller = "agent"
     /\ Opt(analysis)
     /\ Val(analysis) =
            _create_fallback_analysis(FallbackKeyword(Val(incident).error_log)))
    => /\ Val(analysis).fixability = "investigate"
       /\ Val(analysis).confidence = 30
       /\ executed = <<>>

\* C17: for an incident whose error text is "OOMKilled", with no model
\* configured, analyze_failure returns the pattern match: resource,
\* memory_limit, auto, confidence 0.79.
C17_OOMKilledIsPatternMatched ==
    (/\ caller = "agent"
     /\ Opt(analysis)
     /\ Val(incident).error_log = "OOMKilled")
    => /\ Val(analysis).category = "resource"
       /\ Val(analysis).subcategory = "memory_limit"
       /\ Val(analysis).fixability = "auto"
       /\ Val(analysis).confidence = 79

----------------------------------------------------------------------------
\* The candidates the sources that returned gave, after conversion.
FoundCandidates ==
    UNION {{SourceCandidates(src, source_results[src])[i] :
                i \in 1..Len(SourceCandidates(src, source_results[src]))} :
           src \in {s \in SourceNames : source_results[s].state = "returned"}}

\* C11: whichever sources raise, retrieve_solutions does not raise and
\* returns the candidates of the sources that succeeded, without duplicates
\* and sorted by confidence; the empty list when every source failed.
C11_SourceIsolation ==
    kr_pc = "done" =>
        /\ ~retrieval_raised
        /\ Opt(retrieved)
        /\ LET out == Val(retrieved)
           IN  /\ \A i \in 1..Len(out) : out[i] \in FoundCandidates
               /\ \A c \in FoundCandidates : \E i \in 1..Len(out) : out[i].steps = c.steps
               /\ \A i, j \in 1..Len(out) : i # j => out[i].steps # out[j].steps
               /\ \A i, j \in 1..Len(out) : i < j => out[i].confidence >= out[j].confidence
               /\ (\A src \in SourceNames : source_results[src].state = "raised")
                      => out = <<>>

\* The chat search raised, the two other searches gave candidates.
C11_Witness ==
    /\ kr_pc = "done"
    /\ source_results["slack"].state = "raised"
    /\ source_results["vector"].state = "returned"
    /\ source_results["llm"].state = "returned"
    /\ Len(source_results["vector"].results) > 0
    /\ Len(source_results["llm"].results) > 0
    /\ Len(Val(retrieved)) >= 2

\* C12: the list retrieve_solutions returns is sorted by confidence,
\* highest first.
C12_RetrievedSorted ==
    Opt(retrieved) => SortedByConfidence(Val(retrieved))

\* The candidates were not in the order of their confidence before the sort.
C12_Witness ==
    /\ Opt(retrieved)
    /\ Len(Val(retrieved)) >= 2
    /\ ~SortedByConfidence(_deduplicate_candidates(appended))

\* C13: deduplicating a deduplicated list changes nothing, and a
\* deduplicated list has no two candidates of the same steps.
C13_DeduplicationIdempotent ==
    kr_pc = "done" =>
        LET once == _deduplicate_candidates(appended)
        IN  /\ _deduplicate_candidates(once) = once
            /\ \A i, j \in 1..Len(once) : i # j => once[i].steps # once[j].steps

\* A list with a duplicate was deduplicated.
C13_Witness ==
    /\ kr_pc = "done"
    /\ Len(_deduplicate_candidates(appended)) < Len(appended)

\* The positions of the candidates that are the first of their steps.
FirstEncountered(cands) ==
    {i \in 1..Len(cands) : \A j \in 1..(i - 1) : cands[j].steps # cands[i].steps}

\* C14: of the candidates of the same steps the first one in the order
\* of appending is kept, whatever its source and confidence; the kept
\* candidates stay in their order.
C14_KeepsFirstEncountered ==
    kr_pc = "done" =>
        LET once == _deduplicate_candidates(appended)
            keep == FirstEncountered(appended)
        IN  /\ Len(once) = Cardinality(keep)
            /\ Len(appended) - Len(once) = Cardinality((1..Len(appended)) \ keep)
            /\ \A k \in 1..Len(once) :
                   \E i \in keep : /\ Cardinality({j \in keep : j <= i}) = k
                                   /\ once[k] = appended[i]

\* Two candidates of the same steps from two sources, and the first is kept.
C14_Witness ==
    /\ kr_pc = "done"
    /\ \E i, j \in 1..Len(appended) :
          /\ i < j
          /\ appended[i].steps = appended[j].steps
          /\ appended[i].source # appended[j].source
          /\ appended[i].confidence # appended[j].confidence
          /\ \E k \in 1..Len(Val(retrieved)) : Val(retrieved)[k] = appended[i]
          /\ \A k \in 1..Len(Val(retrieved)) : Val(retrieved)[k] # appended[j]

\* C15: the confidence of every candidate built lies in [0, 1].
C15_ConfidencesClamped ==
    \A i \in 1..Len(appended) :
        appended[i].confidence >= 0 /\ appended[i].confidence <= 10000


OutcomeQuality(result) ==
    IF result = <<>> THEN 0
    ELSE CASE Val(result).outcome = "success" -> 3
           [] Val(result).outcome = "partial" -> 2
           [] OTHER -> 1

\* C19: of two recorded outcomes with the same human rating, and the same
\* duration and human-intervention flag where both have a remediation result,
\* the one of better outcome quality (success, partial, failure, no result)
\* has the strictly greater effectiveness score.
C19_StrictOutcomeOrdering ==
    \A i, j \in 1..Len(record_calls) :
        LET a == record_calls[i]
            b == record_calls[j]
        IN  ( /\ Opt(a.effectiveness_score) /\ Opt(b.effectiveness_score)
              /\ a.human_feedback = b.human_feedback
              /\ (Opt(a.remediation_result) /\ Opt(b.remediation_result)) =>
                    /\ Val(a.remediation_result).resolution_time_seconds
                          = Val(b.remediation_result).resolution_time_seconds
                    /\ Val(a.remediation_result).human_intervention_required
                          = Val(b.remediation_result).human_intervention_required
              /\ OutcomeQuality(a.remediation_result) > OutcomeQuality(b.remediation_result) )
            => Val(a.effectiveness_score) > Val(b.effectiveness_score)

\* C20: the resolution the coordinator selects after the recorded outcomes is
\* never one whose (source, resolution) pair the FeedbackSystem has flagged
\* deprecated.
C20_DeprecatedNeverSelected ==
    Opt(selections) =>
        ~should_deprecate_solution(knowledge_deprecation,
                                   Val(selections).resolution_id, Val(selections).source)


\* C22: an incident that process_failure_event registered and whose
\* processing has ended without a successful remediation is in
\* incident_history and has an outcome record in the FeedbackSystem.
C22_UnfixedIncidentIsRecorded ==
    \A id \in registered :
        ( /\ pc = "idle" \/ Val(incident).incident_id # id
          /\ ~\E r \in outcome_records : r.incident_id = id /\ r.outcome_type = "success" )
        => /\ id \in incident_history
           /\ \E r \in outcome_records : r.incident_id = id

\* The gate as specified: expected cost below the manual cost of 500, a
\* confidence of 0.95 for a plan of high risk, the production threshold for a
\* production incident.
CostBenefitGate(cfg, inc, res, plan) ==
    /\ res.confidence * 1 + (100 - res.confidence) * 50 < 500 * 100
    /\ plan.risk_level = "high" => res.confidence >= 95
    /\ inc.environment = "production" =>
          /\ "production" \in DOMAIN cfg.confidence_thresholds
          /\ res.confidence >= cfg.confidence_thresholds["production"]

\* C25: every plan whose execution has begun, approved or not, passes the
\* cost-benefit gate; a plan that fails the gate ends as a rejection with
\* outcome rejected and no action executed.
C25_ExecutedPlanPassedGate ==
    (Opt(remediation_plan) /\ pc # "gate") =>
        LET inc == Val(incident)
            res == Val(selected_resolution)
            plan == Val(remediation_plan)
        IN  /\ Contains(trace, "EXECUTING") => CostBenefitGate(config, inc, res, plan)
            /\ executed # <<>> => Contains(trace, "EXECUTING")
            /\ (raised_in = "none" /\ ~CostBenefitGate(config, inc, res, plan)) =>
                  /\ trace = <<"SELECTED", "PLANNED", "REJECTED">>
                  /\ executed = <<>>
                  /\ Opt(remediation_result)
                  /\ Val(remediation_result).outcome = "rejected"

\* A plan of high risk, for a candidate of confidence 0.95, whose actions ran.
C25_Witness ==
    /\ Opt(remediation_plan)
    /\ Val(remediation_plan).risk_level = "high"
    /\ Val(selected_resolution).confidence >= 95
    /\ Contains(trace, "EXECUTING")
    /\ executed # <<>>

\* The score as specified, times 10000: 0.6 * confidence + 0.2 * source weight
\* + 0.1 * success rate + 0.05 for an environment match + 0.05 * recency decay
\* over 90 days.
SpecifiedScore(c) ==
    60 * c.confidence
    + 20 * (CASE c.source = "slack" -> 100
              [] c.source = "vector_db" -> 90
              [] c.source = "llm_analysis" -> 70
              [] OTHER -> 50)
    + 10 * c.success_rate
    + (IF c.environment_match THEN 500 ELSE 0)
    + (IF c.days_since_used >= 0 THEN (5 * 100 * Max0(90 - c.days_since_used)) \div 90 ELSE 0)

\* C26: once _select_resolution has returned, the selected candidate is one
\* of those of the list that meet the threshold of the environment under an
\* analysis of fixability auto, its score is maximal among them, every such
\* candidate before it in the list scores strictly less, and nothing is
\* selected exactly when no candidate of the list meets the threshold.
C26_SelectsFirstOfMaximalScore ==
    ( /\ pc \in CoordinatorPositions \ {"select"}
      /\ candidates # <<>>
      /\ raised_in # "selection" ) =>
        LET inc == Val(incident)
            threshold == IF inc.environment \in DOMAIN config.confidence_thresholds
                         THEN config.confidence_thresholds[inc.environment]
                         ELSE config.confidence_thresholds["default"]
            Meets(c) == c.confidence >= threshold /\ Val(analysis).fixability = "auto"
        IN  IF selected_resolution = <<>>
            THEN \A i \in 1..Len(candidates) : ~Meets(candidates[i])
            ELSE \E i \in 1..Len(candidates) :
                    /\ candidates[i] = Val(selected_resolution)
                    /\ Meets(candidates[i])
                    /\ \A j \in 1..Len(candidates) :
                          Meets(candidates[j]) =>
                              /\ SpecifiedScore(candidates[j]) <= SpecifiedScore(candidates[i])
                              /\ j < i => SpecifiedScore(candidates[j])
                                              < SpecifiedScore(candidates[i])

\* Two candidates of the same score: the first of the list was selected.
C26_Witness ==
    /\ pc = "plan"
    /\ Len(candidates) = 2
    /\ candidates[1] # candidates[2]
    /\ SpecifiedScore(candidates[1]) = SpecifiedScore(candidates[2])
    /\ selected_resolution = <<candidates[1]>>

\* Some rule of the table applies to (source, category, subcategory).
RuleMatches(inc, an) ==
    \/ /\ inc.source = "github_actions"
       /\ \/ an.category # "config"
          \/ SubcategoryContains(an.subcategory, "syntax")
          \/ SubcategoryContains(an.subcategory, "secret")
    \/ inc.source = "argocd"
    \/ inc.source = "kubernetes" /\ an.category = "resource"

\* C27: the actions of every plan are a non-empty list; it is exactly
\* [escalate_to_human] when no rule applies to the source, category and
\* subcategory and only then, and escalate_to_human never stands next to
\* another action.
C27_ActionsNonEmptyEscalationAlone ==
    Opt(remediation_plan) =>
        LET actions == Val(remediation_plan).actions
        IN  /\ actions # <<>>
            /\ actions = <<"escalate_to_human">> <=> ~RuleMatches(Val(incident), Val(analysis))
            /\ Contains(actions, "escalate_to_human") => Len(actions) = 1

\* A plan for a GitHub Actions incident of category config whose subcategory
\* no rule covers: escalation alone.
C27_Witness ==
    /\ Opt(remediation_plan)
    /\ Val(incident).source = "github_actions"
    /\ Val(analysis).category = "config"
    /\ Val(remediation_plan).actions = <<"escalate_to_human">>


\* C28: when _combine_analyses is given a pattern analysis and a model
\* analysis, the confidence of the result is min(0.4 * pattern + 0.6 * model
\* + 0.1, 1.0) if the two categories agree and 0.8 * model if they differ, and
\* the result carries the category, subcategory and fixability of the model.
C28_FusionRule ==
    (Opt(combined) /\ Opt(Val(combined).pattern_match) /\ Opt(Val(combined).llm_analysis)) =>
        LET p == Val(Val(combined).pattern_match)
            m == Val(Val(combined).llm_analysis)
            result == Val(combined).analysis
        IN  /\ p.category = m.category =>
                  10 * result.confidence = Min(4 * p.confidence + 6 * m.confidence + 100, 1000)
            /\ p.category # m.category => 10 * result.confidence = 8 * m.confidence
            /\ result.category = m.category
            /\ result.subcategory = m.subcategory
            /\ result.fixability = m.fixability

\* A pattern analysis and a model analysis of different categories, combined.
C28_Witness ==
    /\ Opt(combined)
    /\ Opt(Val(combined).pattern_match)
    /\ Opt(Val(combined).llm_analysis)
    /\ Val(Val(combined).pattern_match).category = "config"
    /\ Val(Val(combined).llm_analysis).category = "resource"
    /\ Val(Val(combined).llm_analysis).confidence = 85
    /\ Val(combined).analysis.confidence = 68


\* C23: retrieve_solutions eventually returns, even when the query of one
\* source never completes.
C23_EventuallyReturns == <>(kr_pc = "done")


\* The concurrent tasks that have run the calibration update for key, and
\* those that have run the knowledge update for the solution key.
CalibratedTasks(key) ==
    SelectSeq(tasks, LAMBDA t :
        /\ t.pc \in {"patterns", "knowledge", "deprecation", "metrics", "done"}
        /\ CalibrationKey(RecordedAnalysis, Val(t.resolution.candidate).source) = key)

CountedTasks(key) ==
    SelectSeq(tasks, LAMBDA t :
        /\ t.pc \in {"deprecation", "metrics", "done"}
        /\ SourceKey(Val(t.resolution.candidate).source,
                     Val(t.resolution.candidate).resolution_id) = key)

TaskField(ts, field) == [i \in 1..Len(ts) |-> ts[i][field]]

TaskActuals(ts) ==
    [i \in 1..Len(ts) |-> IF ts[i].outcome_type = "success" THEN 100 ELSE 0]

TaskPredictions(ts) ==
    [i \in 1..Len(ts) |-> Val(ts[i].resolution.candidate).confidence]

TaskCalibrationKeys ==
    {CalibrationKey(RecordedAnalysis, Val(r.candidate).source) : r \in TaskResolutions}

TaskSourceKeys ==
    {SourceKey(Val(r.candidate).source, Val(r.candidate).resolution_id) :
        r \in TaskResolutions}

\* C24: whatever the interleaving of concurrent record_outcome calls, no
\* update of the shared tables is lost: the window of a calibration key holds
\* one (predicted, actual) sample for every call that has made its
\* calibration update, and total_uses, successful_uses and the
\* effectiveness history of a (source, resolution) key account for every
\* call that has made its knowledge update.
C24_NoLostUpdate ==
    /\ \A key \in TaskCalibrationKeys :
          LET ts == CalibratedTasks(key)
          IN  IF ts = <<>> THEN key \notin DOMAIN confidence_adjustments
              ELSE /\ key \in DOMAIN confidence_adjustments
                   /\ Len(confidence_adjustments[key].predictions) = Len(ts)
                   /\ Len(confidence_adjustments[key].outcomes) = Len(ts)
                   /\ SeqSum(confidence_adjustments[key].predictions)
                          = SeqSum(TaskPredictions(ts))
                   /\ SeqSum(confidence_adjustments[key].outcomes)
                          = SeqSum(TaskActuals(ts))
    /\ \A key \in TaskSourceKeys :
          LET ts == CountedTasks(key)
          IN  IF ts = <<>> THEN key \notin DOMAIN knowledge_deprecation
              ELSE /\ key \in DOMAIN knowledge_deprecation
                   /\ knowledge_deprecation[key].total_uses = Len(ts)
                   /\ Len(knowledge_deprecation[key].effectiveness_scores) = Len(ts)
                   /\ SeqSum(knowledge_deprecation[key].effectiveness_scores)
                          = SeqSum(TaskField(ts, "effectiveness_score"))
                   /\ knowledge_deprecation[key].successful_uses * 100
                          = SeqSum(TaskActuals(ts))

\* Two calls for the same solution, a success and a failure, were in flight
\* together (the second stored its record before the first had made its
\* knowledge update) and both have returned.
C24_Witness ==
    /\ Len(tasks) = 2
    /\ tasks[1].pc = "done" /\ tasks[2].pc = "done"
    /\ tasks[1].resolution = tasks[2].resolution
    /\ tasks[1].outcome_type # tasks[2].outcome_type
    /\ Val(tasks[1].resolution.candidate).source = "slack"
    /\ knowledge_deprecation[<<"slack", "slack-95">>].effectiveness_scores
           = <<tasks[2].effectiveness_score, tasks[1].effectiveness_score>>
    /\ confidence_adjustments[<<"dependency", "network_failure", "slack">>].outcomes
           = TaskActuals(tasks)


\* C21: a fresh FeedbackSystem that imported what export_learning_data
\* returned holds the outcome records, the confidence-adjustment table and
\* the deprecation table of the exporting system.
C21_ExportImportRoundTrip ==
    imported # <<>> =>
        Val(imported) = [outcome_records |-> StoredOutcomeRecords(record_calls),
                         confidence_adjustments |-> confidence_adjustments,
                         knowledge_deprecation |-> knowledge_deprecation]

\* The score the formula gives: base + max(0, 1 - duration/600) * 0.2
\* + 0.1 if unattended, +/- 0.1 for a rating, clamped to [0, 1]; in units
\* of 1e-4.
FormulaScore(result, human_feedback) ==
    IF result = <<>> THEN 0
    ELSE LET r == Val(result)
             base == CASE r.outcome = "success" -> 7000
                       [] r.outcome = "partial" -> 4000
                       [] r.outcome = "failure" -> 1000
                       [] OTHER -> 0
             time == (Max0(600 - r.resolution_time_seconds) * 10) \div 3
             unattended == IF r.human_intervention_required THEN 0 ELSE 1000
             rating == CASE human_feedback = "helpful" -> 1000
                         [] human_feedback = "not_helpful" -> -1000
                         [] OTHER -> 0
         IN  Min(Max0(base + time + unattended + rating), 10000)

\* C29: the effectiveness score of every recorded outcome is the one the
\* formula gives, for every duration >= 0, 0 seconds included.
C29_ScoreFollowsFormula ==
    \A i \in 1..Len(record_calls) :
        record_calls[i].effectiveness_score # <<>> =>
            Val(record_calls[i].effectiveness_score)
                = FormulaScore(record_calls[i].remediation_result,
                               record_calls[i].human_feedback)


\* The (predicted, actual) samples recorded for the calibrated solution: one
\* for every record_outcome call, the last 100 of them.
RecordedPredictions ==
    LastN([i \in 1..Len(record_calls) |->
              Val(record_calls[i].resolution.candidate).confidence], 100)

RecordedActuals ==
    LastN([i \in 1..Len(record_calls) |->
              IF record_calls[i].outcome_type = "success" THEN 100 ELSE 0], 100)

CalibratedKey == CalibrationKey(RecordedAnalysis, "slack")

\* C30: the adjustment exposed for a calibration key is 0 while its window
\* holds fewer than min_sample_size samples, and from then on, after every
\* record, it is (mean_actual - mean_predicted) * learning_rate over the
\* window.
C30_CalibrationAdjustment ==
    LET n == Len(RecordedPredictions)
        adj == get_confidence_adjustment(confidence_adjustments, CalibratedKey)
    IN  /\ adj.den > 0
        /\ IF n < LambdaFeedbackConfig.min_sample_size
           THEN adj.num = 0
           ELSE adj.num * (n * 100) =
                    (SeqSum(RecordedActuals) - SeqSum(RecordedPredictions))
                        * LambdaFeedbackConfig.learning_rate * adj.den

\* Ten samples of mean predicted 0.85 and mean actual 0.60 (six successes):
\* the adjustment is -0.025, i.e. -2.5 percent.
C30_Witness ==
    /\ Len(record_calls) = 10
    /\ SeqSum(RecordedActuals) = 600
    /\ SeqSum(RecordedPredictions) = 850
    /\ LET adj == get_confidence_adjustment(confidence_adjustments, CalibratedKey)
       IN  adj.num * 10 = (-25) * adj.den


\* A call for a production incident on a coordinator whose approval rules
\* have production_always set.
ProductionCall ==
    /\ incident # <<>>
    /\ Val(incident).environment = "production"
    /\ config.approval_rules.production_always

NothingExecuted ==
    /\ executed = <<>>
    /\ pc \notin {"execute", "verify", "rollback"}

ReturnsOutcome(outcomes) ==
    remediation_result # <<>> /\ Val(remediation_result).outcome \in outcomes

\* C35, as stated: for a production incident no action is executed, and
\* coordinate_remediation returns no result or a rejected one.
C35_ProductionReturnsNoneOrRejected ==
    ProductionCall =>
        /\ NothingExecuted
        /\ pc = "coord_return" => (remediation_result = <<>> \/ ReturnsOutcome({"rejected"}))

\* C35, corrected: for a production incident no action is executed, and
\* coordinate_remediation returns no result, a rejected result, or, when a
\* step of the coordination raised, an error result.
C35_ProductionNeverExecutes ==
    ProductionCall =>
        /\ NothingExecuted
        /\ pc = "coord_return" =>
              \/ remediation_result = <<>>
              \/ ReturnsOutcome({"rejected"})
              \/ ReturnsOutcome({"error"}) /\ raised_in # "none"

\* A production incident whose candidate passed the selection and the gate
\* and was stopped by the approval workflow.
C35_Witness ==
    /\ ProductionCall
    /\ pc = "coord_return"
    /\ Contains(trace, "APPROVAL_PENDING")
    /\ ReturnsOutcome({"rejected"})
    /\ Val(remediation_result).reason = "Approval required"
    /\ Val(selected_resolution).confidence >= 92

\* A call on a coordinator with the default thresholds and approval rules
\* that selected a candidate of confidence below 0.9.
LowConfidenceCall ==
    /\ config.confidence_thresholds = DefaultConfidenceThresholds
    /\ config.approval_rules = DefaultApprovalRules
    /\ selected_resolution # <<>>
    /\ Val(selected_resolution).confidence < 90

\* C36, as stated: a selected candidate of confidence below 0.9 has no
\* action executed and ends in a rejected result.
C36_LowConfidenceIsRejected ==
    LowConfidenceCall =>
        /\ NothingExecuted
        /\ pc = "coord_return" => ReturnsOutcome({"rejected"})

\* C36, corrected: a selected candidate of confidence below 0.9 has no
\* action executed, and the call ends in a rejected result or, when the
\* planning raised, in an error result.
C36_LowConfidenceNeverExecutes ==
    LowConfidenceCall =>
        /\ NothingExecuted
        /\ pc = "coord_return" =>
              \/ ReturnsOutcome({"rejected"})
              \/ ReturnsOutcome({"error"}) /\ raised_in # "none"

\* A development incident: the candidate of confidence 0.80 met the
\* threshold 0.75, was selected, and was rejected for want of approval.
C36_Witness ==
    /\ LowConfidenceCall
    /\ Val(incident).environment = "development"
    /\ pc = "coord_return"
    /\ ReturnsOutcome({"rejected"})
    /\ Val(remediation_result).reason = "Approval required"

\* The coordinator has its default risk factors, thresholds and approval rules.
DefaultCoordinator ==
    /\ config.risk_factors = DefaultRiskFactors
    /\ config.confidence_thresholds = DefaultConfidenceThresholds
    /\ config.approval_rules = DefaultApprovalRules

\* C37: with the defaults, a plan of high risk is a plan for a production
\* incident, and a plan that is executed is of low or medium risk.
C37_HighRiskNeverExecuted ==
    DefaultCoordinator =>
        /\ (remediation_plan # <<>> /\ Val(remediation_plan).risk_level = "high")
               => Val(incident).environment = "production"
        /\ pc \in {"execute", "verify", "rollback"}
               => Val(remediation_plan).risk_level \in {"low", "medium"}

\* A plan of high risk was made (for a production incident) and the call
\* returned without executing it.
C37_Witness ==
    /\ DefaultCoordinator
    /\ pc = "coord_return"
    /\ remediation_plan # <<>>
    /\ Val(remediation_plan).risk_level = "high"
    /\ ReturnsOutcome({"rejected"})
    /\ executed = <<>>

\* C38: the expected cost of the automated fix is below the manual cost for
\* every confidence from 0 to 1, so a rejection by the gate ("Risk too
\* high") comes from its high-risk test or its production-threshold test.
C38_CostNeverRejects ==
    /\ \A c \in 0..100 : ExpectedCostAuto([confidence |-> c]) < 50000
    /\ (pc = "coord_return" /\ ReturnsOutcome({"rejected"})
            /\ Val(remediation_result).reason = "Risk too high") =>
          \/ /\ Val(remediation_plan).risk_level = "high"
             /\ Val(selected_resolution).confidence < 95
          \/ /\ Val(incident).environment = "production"
             /\ Val(selected_resolution).confidence
                    < config.confidence_thresholds["production"]

\* The gate rejected a plan.
C38_Witness ==
    /\ pc = "coord_return"
    /\ ReturnsOutcome({"rejected"})
    /\ Val(remediation_result).reason = "Risk too high"

\* The call executed a plan whose sole action is escalate_to_human.
EscalationExecuted ==
    /\ pc = "coord_return"
    /\ remediation_plan # <<>>
    /\ Val(remediation_plan).actions = <<"escalate_to_human">>
    /\ executed # <<>>

\* C39: an executed plan whose sole action is escalate_to_human returns a
\* failure with rollback_performed and human_intervention_required set,
\* though its rollback plan is empty and no rollback step ran.
C39_EscalationReportedAsFailure ==
    EscalationExecuted =>
        /\ ReturnsOutcome({"failure"})
        /\ Val(remediation_result).rollback_performed
        /\ Val(remediation_result).human_intervention_required
        /\ Val(remediation_plan).rollback_plan = <<>>
        /\ rollback_log = <<>>
        /\ executed = <<"escalate_to_human">>

C39_Witness == EscalationExecuted /\ ReturnsOutcome({"failure"})


\* C40: in process_failure_event the coordinator runs only after a decision to
\* remediate, that is when the retrieved candidate of highest confidence meets
\* the threshold of the environment and the fixability is auto; it receives
\* that one candidate and nothing else, so whatever it selects and executes is
\* the retrieved candidate of highest confidence, whatever the selection
\* scores of the other retrieved candidates.
C40_CoordinatorReceivesBestCandidate ==
    (caller = "agent" /\ pc \in CoordinatorPositions) =>
        /\ Opt(decision)
        /\ LET retrieved_candidates == Val(decision).all_candidates
               environment == Val(incident).environment
               min_confidence ==
                   IF environment \in DOMAIN config.agent_thresholds
                   THEN config.agent_thresholds[environment]
                   ELSE IF "default" \in DOMAIN config.agent_thresholds
                   THEN config.agent_thresholds["default"]
                   ELSE 85
           IN  /\ Val(decision).should_remediate
               /\ Val(analysis).fixability = "auto"
               /\ Len(candidates) = 1
               /\ \E i \in 1..Len(retrieved_candidates) :
                      retrieved_candidates[i] = candidates[1]
               /\ \A j \in 1..Len(retrieved_candidates) :
                      retrieved_candidates[j].confidence <= candidates[1].confidence
               /\ candidates[1].confidence >= min_confidence
               /\ Val(decision).selected_resolution = candidates
               /\ Opt(selected_resolution) => Val(selected_resolution) = candidates[1]

\* The coordinator executed the retrieved candidate of highest confidence
\* while another retrieved candidate had the higher selection score.
C40_Witness ==
    /\ caller = "agent"
    /\ pc = "coord_return"
    /\ executed # <<>>
    /\ Opt(decision)
    /\ Len(Val(decision).all_candidates) = 2
    /\ Val(decision).all_candidates[1].confidence
           > Val(decision).all_candidates[2].confidence
    /\ _calculate_candidate_score(Val(decision).all_candidates[2])
           > _calculate_candidate_score(Val(decision).all_candidates[1])
    /\ Opt(selected_resolution)
    /\ Val(selected_resolution) = Val(decision).all_candidates[1]


\* A candidate that _llm_to_candidate made of a solution the model generated.
ModelGenerated(candidate) == candidate.source = "llm_analysis"

\* C34: for every analysis of a confidence of 0.8 or more, exactly 0.8
\* included, the list retrieve_solutions returns holds no model-generated
\* candidate.
C34_NoneGeneratedFromConfidence80 ==
    (kr_pc = "done" /\ Val(retrieval_analysis).confidence >= 80) =>
        \A i \in 1..Len(Val(retrieved)) : ~ModelGenerated(Val(retrieved)[i])


\* The successful outcomes recorded for a (category, signature) key.
SuccessesRecorded(calls_made, key) ==
    Cardinality({i \in 1..Len(calls_made) :
        /\ calls_made[i].outcome_type = "success"
        /\ <<RecordedAnalysis.category,
             _create_error_signature(calls_made[i].incident.error_log)>> = key})

\* The adjustment (in hundredths) of a key before it has a pattern is 0.
PatternAdjustment(patterns, key) ==
    IF key \in DOMAIN patterns THEN patterns[key].confidence_adjustment ELSE 0

\* One record_outcome call, from the state before to the state after: an
\* outcome that is no success leaves learned_patterns as it was; a success
\* touches the pattern of its (category, signature) key only and moves its
\* adjustment by 0.01 up or down, as far as [-0.1, 0.1] allows; after the
\* call every adjustment is within [-0.1, 0.1] and the two counts of every
\* pattern add up to the successful outcomes recorded for its key.
PatternLearningStep ==
    (Len(record_calls') = Len(record_calls) + 1) =>
        LET call == record_calls'[Len(record_calls')]
            key == <<RecordedAnalysis.category,
                     _create_error_signature(call.incident.error_log)>>
            before == PatternAdjustment(learned_patterns, key)
            after == PatternAdjustment(learned_patterns', key)
        IN  /\ call.outcome_type # "success" => learned_patterns' = learned_patterns
            /\ call.outcome_type = "success" =>
                  /\ DOMAIN learned_patterns' = DOMAIN learned_patterns \cup {key}
                  /\ \A k \in DOMAIN learned_patterns \ {key} :
                        learned_patterns'[k] = learned_patterns[k]
                  /\ \/ after = (IF before + 1 > 10 THEN 10 ELSE before + 1)
                     \/ after = (IF before - 1 < -10 THEN -10 ELSE before - 1)
            /\ \A k \in DOMAIN learned_patterns' :
                  /\ learned_patterns'[k].confidence_adjustment \in -10..10
                  /\ learned_patterns'[k].success_count + learned_patterns'[k].failure_count
                         = SuccessesRecorded(record_calls', k)

\* C32: pattern learning changes learned_patterns only for a recorded
\* success; each such observation moves the adjustment of the pattern of that
\* (category, signature) by 0.01 up or down (the clamp to [-0.1, 0.1] being
\* the one limit of the move), the adjustment stays within [-0.1, 0.1], and
\* success_count + failure_count is the number of successful outcomes
\* recorded for the key.
C32_PatternLearning == [][PatternLearningStep]_vars

\* Eleven quick successes were recorded for one signature: the tenth took the
\* adjustment to 0.1 and the eleventh left it there; the twelfth call, which
\* was no success, left the patterns alone.
C32_Witness ==
    /\ Len(record_calls) = 12
    /\ record_calls[12].outcome_type # "success"
    /\ <<"dependency", "md5-refused">> \in DOMAIN learned_patterns
    /\ learned_patterns[<<"dependency", "md5-refused">>].success_count = 11
    /\ learned_patterns[<<"dependency", "md5-refused">>].failure_count = 0
    /\ learned_patterns[<<"dependency", "md5-refused">>].confidence_adjustment = 10


\* The most recent n entries of a sequence, in their order.
MostRecent(l, n) == [i \in 1..(IF Len(l) > n THEN n ELSE Len(l)) |->
                        l[i + (IF Len(l) > n THEN Len(l) - n ELSE 0)]]

\* The record_outcome calls made for a calibration key, and for the
\* (source, resolution) pair of a solution, oldest first.
CallsOfCalibrationKey(key) ==
    SelectSeq(record_calls, LAMBDA r :
        /\ Opt(r.resolution.candidate)
        /\ <<RecordedAnalysis.category, RecordedAnalysis.subcategory,
             Val(r.resolution.candidate).source>> = key)

CallsOfSolution(key) ==
    SelectSeq(record_calls, LAMBDA r :
        /\ Opt(r.resolution.candidate)
        /\ <<Val(r.resolution.candidate).source,
             Val(r.resolution.candidate).resolution_id>> = key)

\* C31: after any sequence of record_outcome calls the window of every
\* calibration key holds at most 100 (predicted, actual) pairs, predictions
\* and outcomes of equal length, and they are the pairs of the most recent
\* calls for the key (the oldest were dropped first); the effectiveness
\* history of every (source, resolution) pair holds at most 50 scores, those
\* of the most recent calls for the pair.
C31_WindowsBounded ==
    /\ \A key \in DOMAIN confidence_adjustments :
          LET window == confidence_adjustments[key]
              made == CallsOfCalibrationKey(key)
          IN  /\ Len(window.predictions) = Len(window.outcomes)
              /\ Len(window.predictions) <= 100
              /\ window.predictions =
                     MostRecent([i \in 1..Len(made) |->
                                    Val(made[i].resolution.candidate).confidence], 100)
              /\ window.outcomes =
                     MostRecent([i \in 1..Len(made) |->
                                    IF made[i].outcome_type = "success" THEN 100 ELSE 0], 100)
    /\ \A key \in DOMAIN knowledge_deprecation :
          LET history == knowledge_deprecation[key].effectiveness_scores
              made == CallsOfSolution(key)
          IN  /\ Len(history) <= 50
              /\ history = MostRecent([i \in 1..Len(made) |->
                                          Val(made[i].effectiveness_score)], 50)

\* 102 calls were recorded for one calibration key: a failure of the solution
\* of confidence 0.95 first, then 101 successes of the solution of confidence
\* 0.85.  The window holds 100 pairs, all (0.85, success): the two oldest
\* pairs are gone; and the history of the second solution holds 50 of its 101
\* scores.
C31_Witness ==
    /\ Len(record_calls) = 102
    /\ Val(record_calls[1].resolution.candidate).confidence = 95
    /\ record_calls[1].outcome_type = "failure"
    /\ Val(record_calls[2].resolution.candidate).confidence = 85
    /\ record_calls[2].outcome_type = "success"
    /\ Len(confidence_adjustments[<<"dependency", "network_failure", "slack">>].predictions)
           = 100
    /\ \A i \in 1..100 :
          /\ confidence_adjustments[<<"dependency", "network_failure", "slack">>]
                 .predictions[i] = 85
          /\ confidence_adjustments[<<"dependency", "network_failure", "slack">>]
                 .outcomes[i] = 100
    /\ knowledge_deprecation[<<"slack", "slack-85">>].total_uses = 101
    /\ Len(knowledge_deprecation[<<"slack", "slack-85">>].effectiveness_scores) = 50

\* Whether the (source, resolution) pair key is flagged deprecated in kd.
FlaggedDeprecated(kd, key) == key \in DOMAIN kd /\ kd[key].deprecated

\* One record_outcome call for a solution, from the state before to the state
\* after: the flag of its pair is set when, after the update, the usage count
\* is at least 10 and the mean of the most recent 20 scores is below 0.3, and
\* is left as it was otherwise; the flags of the other pairs are left as they
\* were; no pair with fewer than 10 uses is flagged.
DeprecationStep ==
    (Len(record_calls') = Len(record_calls) + 1) =>
        LET call == record_calls'[Len(record_calls')]
            c == Val(call.resolution.candidate)
            key == <<c.source, c.resolution_id>>
            updated == knowledge_deprecation'[key]
            recent == MostRecent(updated.effectiveness_scores, 20)
            poor == /\ updated.total_uses >= 10
                    /\ SeqSum(recent) < 3000 * Len(recent)
        IN  /\ Opt(call.resolution.candidate) =>
                  /\ key \in DOMAIN knowledge_deprecation'
                  /\ poor => updated.deprecated
                  /\ ~poor => (updated.deprecated
                                   <=> FlaggedDeprecated(knowledge_deprecation, key))
                  /\ \A k \in DOMAIN knowledge_deprecation' \ {key} :
                        FlaggedDeprecated(knowledge_deprecation', k)
                            <=> FlaggedDeprecated(knowledge_deprecation, k)
            /\ \A k \in DOMAIN knowledge_deprecation' :
                  knowledge_deprecation'[k].total_uses < 10
                      => ~knowledge_deprecation'[k].deprecated

\* C33: a record_outcome call sets the deprecated flag of a (source,
\* resolution) pair if and only if, after the call's update, the usage count
\* of the pair is at least the minimum sample size (10) and the mean of its
\* most recent 20 effectiveness scores is below the deprecation threshold
\* (0.3); a pair with fewer uses is never flagged.
C33_DeprecationRule == [][DeprecationStep]_vars

\* A solution was flagged on the mean of its most recent 20 scores although
\* the mean of its whole history is above the threshold: 20 successes, then
\* 16 failures.
C33_Witness ==
    /\ Len(record_calls) = 36
    /\ <<"slack", "slack-85">> \in DOMAIN knowledge_deprecation
    /\ knowledge_deprecation[<<"slack", "slack-85">>].total_uses = 36
    /\ knowledge_deprecation[<<"slack", "slack-85">>].deprecated
    /\ SeqSum(knowledge_deprecation[<<"slack", "slack-85">>].effectiveness_scores)
           >= 3000 * 36
    /\ record_calls[35].outcome_type = "failure"

====
